---- MODULE Spec2Model ----
(***************************************************************************)
(* The convolution engine of the 2D convolution visualiser:                *)
(* calculatePadding, calculateOutputDimensions, applyPadding and           *)
(* convolve2D of lib/convolution.ts (the five-mode revision), as pure      *)
(* operators, and a state machine whose initial states are the calls a     *)
(* caller can make and whose actions run the called function.              *)
(*                                                                         *)
(* A matrix (number[][]) is a function from the row indices 0..h-1 to      *)
(* functions from the column indices 0..w-1 to numbers, so the indices of  *)
(* the model are the indices of the source.                                *)
(***************************************************************************)
EXTENDS Integers, Sequences, FiniteSets, TLC

\* ---------------------------------------------------------------- bounds
\* Largest height and width of an input matrix that is materialised.
MaxIn == 3
\* Largest height and width of a kernel matrix that is materialised.
MaxK == 3
\* Largest stride.
MaxStride == 3
\* Largest per-side amount handed directly to applyPadding.
MaxPad == 2
\* Largest kernel size asked of generateKernel (the largest of KERNEL_SIZES).
MaxSize == 9

\* ------------------------------------------------------ program constants
\* resizeTo64: every image the application convolves is 64 x 64.
ImageSize == 64
\* The kernel sizes the controls offer.
KERNEL_SIZES == {1, 3, 5, 7, 9}
\* type PaddingType
PaddingType == {"valid", "zero", "reflect", "replicate", "same"}

\* ------------------------------------------------------- JavaScript helpers
\* Math.floor(a / b) for integers a and b > 0: the floor of the real quotient.
MathFloorDiv(a, b) == a \div b
\* Math.ceil(a / b) for integers a and b > 0: the ceiling of the real quotient.
MathCeilDiv(a, b) == -((-a) \div b)
\* Math.max
MathMax(a, b) == IF a >= b THEN a ELSE b

\* Statements run in sequence: the value e, taken up once v has been computed.
\* (An accumulator handed on unevaluated nests the evaluation of a loop as
\* deep as the loop is long.)
After(v, e) == IF v = v THEN e ELSE e

\* m.length and m[0].length
Rows(m) == Cardinality(DOMAIN m)
Cols(m) == Cardinality(DOMAIN m[0])
\* Array(h).fill(0).map(() => Array(w).fill(0))
ZeroMatrix(h, w) == [i \in 0..(h - 1) |-> [j \in 0..(w - 1) |-> 0]]

\* ------------------------------------------------------- calculatePadding
\* Variant: Same mode resolved like Zero mode, floor(kernel / 2) on each side.
calculatePaddingSameAsZero(inputHeight, inputWidth, kernelHeight, kernelWidth, strideH, strideW, padding) ==
  IF padding = "valid"
  THEN [top |-> 0, bottom |-> 0, left |-> 0, right |-> 0]
  ELSE LET padH == MathFloorDiv(kernelHeight, 2)
           padW == MathFloorDiv(kernelWidth, 2)
       IN  [top |-> padH, bottom |-> padH, left |-> padW, right |-> padW]

\* Variant: Same mode gives the extra pixel of an odd total to top / left.
calculatePaddingExtraOnTop(inputHeight, inputWidth, kernelHeight, kernelWidth, strideH, strideW, padding) ==
  IF padding = "valid"
  THEN [top |-> 0, bottom |-> 0, left |-> 0, right |-> 0]
  ELSE IF padding = "same"
  THEN LET outHeight == MathCeilDiv(inputHeight, strideH)
           outWidth  == MathCeilDiv(inputWidth, strideW)
           padTotalH == MathMax((outHeight - 1) * strideH + kernelHeight - inputHeight, 0)
           padTotalW == MathMax((outWidth - 1) * strideW + kernelWidth - inputWidth, 0)
           padBottom == MathFloorDiv(padTotalH, 2)
           padRight  == MathFloorDiv(padTotalW, 2)
       IN  [top |-> padTotalH - padBottom, bottom |-> padBottom,
            left |-> padTotalW - padRight, right |-> padRight]
  ELSE LET padH == MathFloorDiv(kernelHeight, 2)
           padW == MathFloorDiv(kernelWidth, 2)
       IN  [top |-> padH, bottom |-> padH, left |-> padW, right |-> padW]

calculatePadding(inputHeight, inputWidth, kernelHeight, kernelWidth, strideH, strideW, padding) ==
  IF padding = "valid"
  THEN [top |-> 0, bottom |-> 0, left |-> 0, right |-> 0]
  ELSE IF padding = "same"
  THEN LET outHeight == MathCeilDiv(inputHeight, strideH)
           outWidth  == MathCeilDiv(inputWidth, strideW)
           padTotalH == MathMax((outHeight - 1) * strideH + kernelHeight - inputHeight, 0)
           padTotalW == MathMax((outWidth - 1) * strideW + kernelWidth - inputWidth, 0)
           padTop    == MathFloorDiv(padTotalH, 2)
           padBottom == padTotalH - padTop
           padLeft   == MathFloorDiv(padTotalW, 2)
           padRight  == padTotalW - padLeft
       IN  [top |-> padTop, bottom |-> padBottom, left |-> padLeft, right |-> padRight]
  ELSE LET padH == MathFloorDiv(kernelHeight, 2)
           padW == MathFloorDiv(kernelWidth, 2)
       IN  [top |-> padH, bottom |-> padH, left |-> padW, right |-> padW]

\* ---------------------------------------------- calculateOutputDimensions
\* Variant: Math.ceil in place of Math.floor.
calculateOutputDimensionsCeil(inputHeight, inputWidth, kernelHeight, kernelWidth, strideH, strideW, paddingValues) ==
  LET height == MathCeilDiv(inputHeight + paddingValues.top + paddingValues.bottom - kernelHeight, strideH) + 1
      width  == MathCeilDiv(inputWidth + paddingValues.left + paddingValues.right - kernelWidth, strideW) + 1
  IN  [height |-> MathMax(1, height), width |-> MathMax(1, width)]

\* Variant: the "+ 1" of the formula left out.
calculateOutputDimensionsNoPlusOne(inputHeight, inputWidth, kernelHeight, kernelWidth, strideH, strideW, paddingValues) ==
  LET height == MathFloorDiv(inputHeight + paddingValues.top + paddingValues.bottom - kernelHeight, strideH)
      width  == MathFloorDiv(inputWidth + paddingValues.left + paddingValues.right - kernelWidth, strideW)
  IN  [height |-> MathMax(1, height), width |-> MathMax(1, width)]

\* Variant: the Math.max(1, ...) clamp left out.
calculateOutputDimensionsUnclamped(inputHeight, inputWidth, kernelHeight, kernelWidth, strideH, strideW, paddingValues) ==
  LET height == MathFloorDiv(inputHeight + paddingValues.top + paddingValues.bottom - kernelHeight, strideH) + 1
      width  == MathFloorDiv(inputWidth + paddingValues.left + paddingValues.right - kernelWidth, strideW) + 1
  IN  [height |-> height, width |-> width]

calculateOutputDimensions(inputHeight, inputWidth, kernelHeight, kernelWidth, strideH, strideW, paddingValues) ==
  LET height == MathFloorDiv(inputHeight + paddingValues.top + paddingValues.bottom - kernelHeight, strideH) + 1
      width  == MathFloorDiv(inputWidth + paddingValues.left + paddingValues.right - kernelWidth, strideW) + 1
  IN  [height |-> MathMax(1, height), width |-> MathMax(1, width)]

\* ----------------------------------------------------------- applyPadding
\* Variant: the copy ignores the offsets, padded[i][j] = input[i][j].
CopyToCentreNoOffset(input, top, bottom, left, right) ==
  LET height == Rows(input)
      width  == Cols(input)
  IN  [i \in 0..(height + top + bottom - 1) |-> [j \in 0..(width + left + right - 1) |->
        IF i < height /\ j < width THEN input[i][j] ELSE 0]]

\* Variant: Array(paddedHeight).fill(Array(paddedWidth).fill(0)), one row
\* array shared by every row, so each row ends as the last row written.
CopyToCentreSharedRow(input, top, bottom, left, right) ==
  LET height == Rows(input)
      width  == Cols(input)
  IN  [i \in 0..(height + top + bottom - 1) |-> [j \in 0..(width + left + right - 1) |->
        IF j >= left /\ j < left + width THEN input[height - 1][j - left] ELSE 0]]

\* The zero-initialised padded matrix with the input copied to its centre.
CopyToCentre(input, top, bottom, left, right) ==
  LET height == Rows(input)
      width  == Cols(input)
      paddedHeight == height + top + bottom
      paddedWidth  == width + left + right
  IN  [i \in 0..(paddedHeight - 1) |-> [j \in 0..(paddedWidth - 1) |->
        IF i >= top /\ i < top + height /\ j >= left /\ j < left + width
        THEN input[i - top][j - left]
        ELSE 0]]

\* Variant: the bottom loop left out.
ReflectTopOnly(padded, top, left, height, width) ==
  [i \in DOMAIN padded |-> [j \in DOMAIN padded[i] |->
    LET sourceRow == top + (top - 1 - i)
    IN  IF i < top /\ j >= left /\ j < left + width /\ sourceRow < top + height
        THEN padded[sourceRow][j]
        ELSE padded[i][j]]]

\* Variant: the top and bottom loops mirror about the edge row without
\* repeating it (sourceRow one row further inside).
ReflectTopBottomMirrored(padded, top, left, height, width) ==
  LET afterTop ==
        [i \in DOMAIN padded |-> [j \in DOMAIN padded[i] |->
          LET sourceRow == top + (top - i)
          IN  IF i < top /\ j >= left /\ j < left + width /\ sourceRow < top + height
              THEN padded[sourceRow][j]
              ELSE padded[i][j]]]
  IN  [i \in DOMAIN padded |-> [j \in DOMAIN padded[i] |->
        LET sourceRow == top + height - 2 - (i - (top + height))
        IN  IF i >= top + height /\ j >= left /\ j < left + width /\ sourceRow >= top
            THEN afterTop[sourceRow][j]
            ELSE afterTop[i][j]]]

\* Reflect, top loop then bottom loop. Both write border rows only and read
\* centre rows only, so each loop is one simultaneous assignment.
ReflectTopBottom(padded, top, left, height, width) ==
  LET afterTop ==
        [i \in DOMAIN padded |-> [j \in DOMAIN padded[i] |->
          LET sourceRow == top + (top - 1 - i)
          IN  IF i < top /\ j >= left /\ j < left + width /\ sourceRow < top + height
              THEN padded[sourceRow][j]
              ELSE padded[i][j]]]
  IN  [i \in DOMAIN padded |-> [j \in DOMAIN padded[i] |->
        LET sourceRow == top + height - 1 - (i - (top + height))
        IN  IF i >= top + height /\ j >= left /\ j < left + width /\ sourceRow >= top
            THEN afterTop[sourceRow][j]
            ELSE afterTop[i][j]]]

\* Reflect, left loop then right loop over every row (corners included). Both
\* write border columns only and read centre columns only.
ReflectLeftRight(padded, left, width) ==
  LET afterLeft ==
        [i \in DOMAIN padded |-> [j \in DOMAIN padded[i] |->
          LET sourceCol == left + (left - 1 - j)
          IN  IF j < left /\ sourceCol < left + width
              THEN padded[i][sourceCol]
              ELSE padded[i][j]]]
  IN  [i \in DOMAIN padded |-> [j \in DOMAIN padded[i] |->
        LET sourceCol == left + width - 1 - (j - (left + width))
        IN  IF j >= left + width /\ sourceCol >= left
            THEN afterLeft[i][sourceCol]
            ELSE afterLeft[i][j]]]

\* Variant: the four corner loops left out.
ReplicateBordersEdgesOnly(padded, input, top, left, height, width) ==
  [i \in DOMAIN padded |-> [j \in DOMAIN padded[i] |->
    CASE i < top /\ j >= left /\ j < left + width             -> input[0][j - left]
      [] i >= top + height /\ j >= left /\ j < left + width   -> input[height - 1][j - left]
      [] i >= top /\ i < top + height /\ j < left             -> input[i - top][0]
      [] i >= top /\ i < top + height /\ j >= left + width    -> input[i - top][width - 1]
      [] OTHER                                                -> padded[i][j]]]

\* Replicate: four corner loops, top and bottom edges, left and right edges.
\* The eight loops write disjoint regions and read the input only.
ReplicateBorders(padded, input, top, left, height, width) ==
  [i \in DOMAIN padded |-> [j \in DOMAIN padded[i] |->
    CASE i < top /\ j < left                                  -> input[0][0]
      [] i < top /\ j >= left + width                         -> input[0][width - 1]
      [] i >= top + height /\ j < left                        -> input[height - 1][0]
      [] i >= top + height /\ j >= left + width               -> input[height - 1][width - 1]
      [] i < top /\ j >= left /\ j < left + width             -> input[0][j - left]
      [] i >= top + height /\ j >= left /\ j < left + width   -> input[height - 1][j - left]
      [] i >= top /\ i < top + height /\ j < left             -> input[i - top][0]
      [] i >= top /\ i < top + height /\ j >= left + width    -> input[i - top][width - 1]
      [] OTHER                                                -> padded[i][j]]]

\* Variant: same mode fills its border like replicate mode.
applyPaddingSameReplicates(input, paddingValues, paddingMode) ==
  LET top    == paddingValues.top
      bottom == paddingValues.bottom
      left   == paddingValues.left
      right  == paddingValues.right
      height == Rows(input)
      width  == Cols(input)
      padded == CopyToCentre(input, top, bottom, left, right)
  IN  IF top = 0 /\ bottom = 0 /\ left = 0 /\ right = 0 THEN input
      ELSE IF paddingMode = "zero" THEN padded
      ELSE IF paddingMode = "reflect"
           THEN ReflectLeftRight(ReflectTopBottom(padded, top, left, height, width), left, width)
      ELSE IF paddingMode \in {"replicate", "same"}
           THEN ReplicateBorders(padded, input, top, left, height, width)
      ELSE padded

applyPadding(input, paddingValues, paddingMode) ==
  LET top    == paddingValues.top
      bottom == paddingValues.bottom
      left   == paddingValues.left
      right  == paddingValues.right
      height == Rows(input)
      width  == Cols(input)
      padded == CopyToCentre(input, top, bottom, left, right)
  IN  IF top = 0 /\ bottom = 0 /\ left = 0 /\ right = 0 THEN input
      ELSE IF paddingMode = "zero" THEN padded
      ELSE IF paddingMode = "reflect"
           THEN ReflectLeftRight(ReflectTopBottom(padded, top, left, height, width), left, width)
      ELSE IF paddingMode = "replicate"
           THEN ReplicateBorders(padded, input, top, left, height, width)
      ELSE padded

\* ------------------------------------------------------------- convolve2D
\* The total of the first n cells of m in row-major order (sum += product).
RECURSIVE SumCells(_, _)
SumCells(m, n) ==
  IF n = 0 THEN 0
  ELSE LET w == Cols(m)
       IN  SumCells(m, n - 1) + m[(n - 1) \div w][(n - 1) % w]

\* Variant: the kernel flipped in both axes before the product (convolution
\* in the mathematical sense instead of cross-correlation).
ConvolutionStepAtFlippedKernel(paddedInput, kernel, stride, paddingValues, i, j) ==
  LET kernelHeight == Rows(kernel)
      kernelWidth  == Cols(kernel)
      top  == i * stride
      left == j * stride
      inputPatch ==
        [ki \in 0..(kernelHeight - 1) |-> [kj \in 0..(kernelWidth - 1) |->
          paddedInput[top + ki][left + kj]]]
      elementWiseProducts ==
        [ki \in 0..(kernelHeight - 1) |-> [kj \in 0..(kernelWidth - 1) |->
          inputPatch[ki][kj] * kernel[kernelHeight - 1 - ki][kernelWidth - 1 - kj]]]
  IN  [position            |-> [row |-> top - paddingValues.top, col |-> left - paddingValues.left],
       inputPatch          |-> inputPatch,
       kernelValues        |-> [ki \in DOMAIN kernel |-> kernel[ki]],
       elementWiseProducts |-> elementWiseProducts,
       sum                 |-> SumCells(elementWiseProducts, kernelHeight * kernelWidth),
       outputRow           |-> i,
       outputCol           |-> j]

\* Variant: position left in the coordinates of the padded input.
ConvolutionStepAtPaddedPosition(paddedInput, kernel, stride, paddingValues, i, j) ==
  LET kernelHeight == Rows(kernel)
      kernelWidth  == Cols(kernel)
      top  == i * stride
      left == j * stride
      inputPatch ==
        [ki \in 0..(kernelHeight - 1) |-> [kj \in 0..(kernelWidth - 1) |->
          paddedInput[top + ki][left + kj]]]
      elementWiseProducts ==
        [ki \in 0..(kernelHeight - 1) |-> [kj \in 0..(kernelWidth - 1) |->
          inputPatch[ki][kj] * kernel[ki][kj]]]
  IN  [position            |-> [row |-> top, col |-> left],
       inputPatch          |-> inputPatch,
       kernelValues        |-> [ki \in DOMAIN kernel |-> kernel[ki]],
       elementWiseProducts |-> elementWiseProducts,
       sum                 |-> SumCells(elementWiseProducts, kernelHeight * kernelWidth),
       outputRow           |-> i,
       outputCol           |-> j]

\* The body of the two nested loops for output cell (i, j): the step it
\* records, given that the window fits.
ConvolutionStepAt(paddedInput, kernel, stride, paddingValues, i, j) ==
  LET kernelHeight == Rows(kernel)
      kernelWidth  == Cols(kernel)
      top  == i * stride
      left == j * stride
      inputPatch ==
        [ki \in 0..(kernelHeight - 1) |-> [kj \in 0..(kernelWidth - 1) |->
          paddedInput[top + ki][left + kj]]]
      elementWiseProducts ==
        [ki \in 0..(kernelHeight - 1) |-> [kj \in 0..(kernelWidth - 1) |->
          inputPatch[ki][kj] * kernel[ki][kj]]]
  IN  [position            |-> [row |-> top - paddingValues.top, col |-> left - paddingValues.left],
       inputPatch          |-> inputPatch,
       kernelValues        |-> [ki \in DOMAIN kernel |-> kernel[ki]],
       elementWiseProducts |-> elementWiseProducts,
       sum                 |-> SumCells(elementWiseProducts, kernelHeight * kernelWidth),
       outputRow           |-> i,
       outputCol           |-> j]

\* Variant: "<" in place of "<=" in the bounds test.
WindowFitsStrict(paddedInput, kernel, stride, i, j) ==
  /\ i * stride + Rows(kernel) < Rows(paddedInput)
  /\ j * stride + Cols(kernel) < Cols(paddedInput)

\* Ensure the kernel fits within the padded input.
WindowFits(paddedInput, kernel, stride, i, j) ==
  /\ i * stride + Rows(kernel) <= Rows(paddedInput)
  /\ j * stride + Cols(kernel) <= Cols(paddedInput)

\* Variant: the two loops nested the other way round, columns outermost.
\* The inner loop, over the rows i.. of column j.
RECURSIVE ConvolveColumn(_, _, _, _, _, _, _, _)
ConvolveColumn(paddedInput, kernel, stride, paddingValues, outputDims, i, j, acc) ==
  IF i >= outputDims.height THEN acc
  ELSE IF i * stride + Rows(kernel) <= Rows(paddedInput)
          /\ j * stride + Cols(kernel) <= Cols(paddedInput)
  THEN LET step == ConvolutionStepAt(paddedInput, kernel, stride, paddingValues, i, j)
           next == [output |-> [acc.output EXCEPT ![i][j] = step.sum],
                    steps  |-> Append(acc.steps, step)]
       IN  After(next, ConvolveColumn(paddedInput, kernel, stride, paddingValues, outputDims,
                                      i + 1, j, next))
  ELSE ConvolveColumn(paddedInput, kernel, stride, paddingValues, outputDims, i + 1, j, acc)

\* Its outer loop, over the columns j...
RECURSIVE ConvolveLoopColumnMajor(_, _, _, _, _, _, _)
ConvolveLoopColumnMajor(paddedInput, kernel, stride, paddingValues, outputDims, j, acc) ==
  IF j >= outputDims.width THEN acc
  ELSE LET next == ConvolveColumn(paddedInput, kernel, stride, paddingValues, outputDims, 0, j, acc)
       IN  After(next, ConvolveLoopColumnMajor(paddedInput, kernel, stride, paddingValues,
                                               outputDims, j + 1, next))

\* for (j ...): the inner loop from column j on, in output row i;
\* acc = [output, steps].
RECURSIVE ConvolveRow(_, _, _, _, _, _, _, _)
ConvolveRow(paddedInput, kernel, stride, paddingValues, outputDims, i, j, acc) ==
  IF j >= outputDims.width THEN acc
  ELSE IF WindowFits(paddedInput, kernel, stride, i, j)
  THEN LET step == ConvolutionStepAt(paddedInput, kernel, stride, paddingValues, i, j)
           next == [output |-> [acc.output EXCEPT ![i][j] = step.sum],
                    steps  |-> Append(acc.steps, step)]
       IN  After(next, ConvolveRow(paddedInput, kernel, stride, paddingValues, outputDims,
                                   i, j + 1, next))
  ELSE ConvolveRow(paddedInput, kernel, stride, paddingValues, outputDims, i, j + 1, acc)

\* for (i ...): the outer loop from output row i on.
RECURSIVE ConvolveLoop(_, _, _, _, _, _, _)
ConvolveLoop(paddedInput, kernel, stride, paddingValues, outputDims, i, acc) ==
  IF i >= outputDims.height THEN acc
  ELSE LET next == ConvolveRow(paddedInput, kernel, stride, paddingValues, outputDims, i, 0, acc)
       IN  After(next, ConvolveLoop(paddedInput, kernel, stride, paddingValues, outputDims,
                                    i + 1, next))

convolve2D(input, kernel, stride, padding) ==
  LET kernelHeight == Rows(kernel)
      kernelWidth  == Cols(kernel)
      inputHeight  == Rows(input)
      inputWidth   == Cols(input)
      paddingValues == calculatePadding(inputHeight, inputWidth, kernelHeight, kernelWidth,
                                        stride, stride, padding)
      paddedInput == applyPadding(input, paddingValues, padding)
      outputDims == calculateOutputDimensions(inputHeight, inputWidth, kernelHeight, kernelWidth,
                                              stride, stride, paddingValues)
      done == ConvolveLoop(paddedInput, kernel, stride, paddingValues, outputDims, 0,
                           [output |-> ZeroMatrix(outputDims.height, outputDims.width),
                            steps  |-> << >>])
  IN  [output           |-> done.output,
       steps            |-> done.steps,
       outputDimensions |-> outputDims,
       paddingValues    |-> paddingValues]

\* ------------------------------------------- the three-mode revision
\* src/lib/convolution.ts as it stood before calculatePadding existed:
\* PaddingType = 'none' | 'zero' | 'reflect', one kernelSize for both axes,
\* the pad always floor(kernelSize / 2) on every side.
LegacyPaddingType == {"none", "zero", "reflect"}

legacyCalculateOutputDimensions(inputHeight, inputWidth, kernelSize, stride, padding) ==
  LET paddingSize == IF padding = "none" THEN 0 ELSE MathFloorDiv(kernelSize, 2)
      height == MathFloorDiv(inputHeight + 2 * paddingSize - kernelSize, stride) + 1
      width  == MathFloorDiv(inputWidth + 2 * paddingSize - kernelSize, stride) + 1
  IN  [height |-> MathMax(1, height), width |-> MathMax(1, width)]

\* Top and bottom borders, iterations i.. of the outer loop. Within one i the
\* inner loop handles each centre column on its own: the top assignment, then
\* the bottom assignment, which reads the rows as the top assignment left them.
RECURSIVE LegacyReflectRows(_, _, _, _, _)
LegacyReflectRows(padded, padSize, height, width, i) ==
  IF i >= padSize THEN padded
  ELSE LET centreCol(j) == j >= padSize /\ j < width + padSize
           afterTop ==
             [padded EXCEPT ![i] =
               [j \in DOMAIN padded[i] |->
                 IF centreCol(j) THEN padded[2 * padSize - i][j] ELSE padded[i][j]]]
           afterBottom ==
             [afterTop EXCEPT ![height + padSize + i] =
               [j \in DOMAIN padded[i] |->
                 IF centreCol(j) THEN afterTop[height + padSize - i - 2][j]
                 ELSE afterTop[height + padSize + i][j]]]
       IN  LegacyReflectRows(afterBottom, padSize, height, width, i + 1)

\* Left and right borders, iterations j.. of the inner loop, for every row at
\* once: a row's assignments read and write that row only.
RECURSIVE LegacyReflectCols(_, _, _, _)
LegacyReflectCols(padded, padSize, width, j) ==
  IF j >= padSize THEN padded
  ELSE LET afterLeft ==
             [i \in DOMAIN padded |-> [padded[i] EXCEPT ![j] = padded[i][2 * padSize - j]]]
           afterRight ==
             [i \in DOMAIN padded |->
               [afterLeft[i] EXCEPT ![width + padSize + j] = afterLeft[i][width + padSize - j - 2]]]
       IN  LegacyReflectCols(afterRight, padSize, width, j + 1)

legacyApplyPadding(input, padding, kernelSize) ==
  LET padSize == MathFloorDiv(kernelSize, 2)
      height  == Rows(input)
      width   == Cols(input)
      padded  == CopyToCentre(input, padSize, padSize, padSize, padSize)
  IN  IF padding = "none" THEN input
      ELSE IF padding = "zero" THEN padded
      ELSE IF padding = "reflect"
           THEN LegacyReflectCols(LegacyReflectRows(padded, padSize, height, width, 0),
                                  padSize, width, 0)
      ELSE padded

\* The loop body of the three-mode convolve2D for the window at (i, j) of the
\* padded input: position is recorded in padded coordinates.
LegacyStepAt(paddedInput, kernel, i, j, outputRow, outputCol) ==
  LET kernelSize == Rows(kernel)
      inputPatch ==
        [ki \in 0..(kernelSize - 1) |-> [kj \in 0..(kernelSize - 1) |->
          paddedInput[i + ki][j + kj]]]
      elementWiseProducts ==
        [ki \in 0..(kernelSize - 1) |-> [kj \in 0..(kernelSize - 1) |->
          inputPatch[ki][kj] * kernel[ki][kj]]]
  IN  [position            |-> [row |-> i, col |-> j],
       inputPatch          |-> inputPatch,
       kernelValues        |-> [ki \in DOMAIN kernel |-> kernel[ki]],
       elementWiseProducts |-> elementWiseProducts,
       sum                 |-> SumCells(elementWiseProducts, kernelSize * kernelSize),
       outputRow           |-> outputRow,
       outputCol           |-> outputCol]

\* for (j = 0; j <= padded[0].length - k; j += stride) { if (...) break; ...
\*   outputCol++ }: the inner loop from window column j on, for window row i.
RECURSIVE LegacyConvolveRow(_, _, _, _, _, _, _, _, _)
LegacyConvolveRow(paddedInput, kernel, stride, outputDims, i, j, outputRow, outputCol, acc) ==
  IF j > Cols(paddedInput) - Rows(kernel)
     \/ outputRow >= outputDims.height \/ outputCol >= outputDims.width
  THEN acc
  ELSE LET step == LegacyStepAt(paddedInput, kernel, i, j, outputRow, outputCol)
           next == [output |-> [acc.output EXCEPT ![outputRow][outputCol] = step.sum],
                    steps  |-> Append(acc.steps, step)]
       IN  After(next, LegacyConvolveRow(paddedInput, kernel, stride, outputDims,
                                         i, j + stride, outputRow, outputCol + 1, next))

\* for (i = 0; i <= padded.length - k; i += stride) { outputCol = 0;
\*   for (j ...) {...}  outputRow++ }: the outer loop from window row i on;
\* a break leaves the inner loop only.
RECURSIVE LegacyConvolveLoop(_, _, _, _, _, _, _)
LegacyConvolveLoop(paddedInput, kernel, stride, outputDims, i, outputRow, acc) ==
  IF i > Rows(paddedInput) - Rows(kernel) THEN acc
  ELSE LET next == LegacyConvolveRow(paddedInput, kernel, stride, outputDims,
                                     i, 0, outputRow, 0, acc)
       IN  After(next, LegacyConvolveLoop(paddedInput, kernel, stride, outputDims,
                                          i + stride, outputRow + 1, next))

legacyConvolve2D(input, kernel, stride, padding) ==
  LET kernelSize  == Rows(kernel)
      paddedInput == legacyApplyPadding(input, padding, kernelSize)
      outputDims  == legacyCalculateOutputDimensions(Rows(input), Cols(input), kernelSize,
                                                     stride, padding)
      done == LegacyConvolveLoop(paddedInput, kernel, stride, outputDims, 0, 0,
                                 [output |-> ZeroMatrix(outputDims.height, outputDims.width),
                                  steps  |-> << >>])
  IN  [output           |-> done.output,
       steps            |-> done.steps,
       outputDimensions |-> outputDims]

\* ---------------------------------------------------------- the object heap
\* A number[][] is an outer array object whose elements are references to row
\* array objects. The heap is the sequence of the array objects allocated so
\* far and an address is an index into it; an array object is a function on
\* 0..n-1 whose elements are numbers or references [ref |-> address].
Ref(a) == [ref |-> a]
\* The matrix read through the reference at address a: m[i][j].
Deref(heap, a) == [i \in DOMAIN heap[a] |-> heap[heap[a][i].ref]]

\* A new matrix with the contents m: its rows, then the outer array.
AllocMatrix(heap, m) ==
  LET base  == Len(heap)
      rows  == [k \in 1..Rows(m) |-> m[k - 1]]
      outer == [i \in 0..(Rows(m) - 1) |-> Ref(base + i + 1)]
  IN  [heap |-> Append(heap \o rows, outer), ref |-> base + Rows(m) + 1]

\* The assignments m[i][j] = v of a loop nest made through the reference at
\* address a, for every cell of the matrix `cells`.
WriteCells(heap, a, cells) ==
  [x \in DOMAIN heap |->
    IF \E i \in DOMAIN cells : heap[a][i].ref = x
    THEN LET i == CHOOSE i \in DOMAIN cells : heap[a][i].ref = x
         IN  [j \in DOMAIN heap[x] |-> IF j \in DOMAIN cells[i] THEN cells[i][j] ELSE heap[x][j]]
    ELSE heap[x]]

\* m[r][c] = value through the reference at address a.
StoreCell(heap, a, r, c, value) == [heap EXCEPT ![heap[a][r].ref][c] = value]

\* Variant: kernel.map(row => row), a new outer array over the same rows.
CopyMatrixShallow(heap, a) == [heap |-> Append(heap, heap[a]), ref |-> Len(heap) + 1]

\* m.map(row => [...row]): a new outer array over new rows.
CopyMatrix(heap, a) == AllocMatrix(heap, Deref(heap, a))

\* applyPadding on objects: `return input` when every amount is 0, else a
\* zero-filled matrix allocated by Array(..).fill(0).map(..) and written
\* through its own reference.
applyPaddingOnHeap(heap, input, paddingValues, paddingMode) ==
  IF /\ paddingValues.top = 0 /\ paddingValues.bottom = 0
     /\ paddingValues.left = 0 /\ paddingValues.right = 0
  THEN [heap |-> heap, ref |-> input]
  ELSE LET contents == applyPadding(Deref(heap, input), paddingValues, paddingMode)
           padded   == AllocMatrix(heap, ZeroMatrix(Rows(contents), Cols(contents)))
       IN  [heap |-> WriteCells(padded.heap, padded.ref, contents), ref |-> padded.ref]

\* The three-mode applyPadding on objects: `return input` in mode 'none'.
legacyApplyPaddingOnHeap(heap, input, padding, kernelSize) ==
  IF padding = "none"
  THEN [heap |-> heap, ref |-> input]
  ELSE LET contents == legacyApplyPadding(Deref(heap, input), padding, kernelSize)
           padded   == AllocMatrix(heap, ZeroMatrix(Rows(contents), Cols(contents)))
       IN  [heap |-> WriteCells(padded.heap, padded.ref, contents), ref |-> padded.ref]

\* The arrays of the steps from..to, allocated in the order of the steps:
\* inputPatch and elementWiseProducts built cell by cell, kernelValues copied
\* from the kernel. The range is split in two to keep the evaluation shallow;
\* the second half starts from the heap the first half left.
RECURSIVE AllocSteps(_, _, _, _, _)
AllocSteps(heap, kernel, steps, from, to) ==
  IF from > to THEN [heap |-> heap, refs |-> << >>]
  ELSE IF from = to
  THEN LET patch    == AllocMatrix(heap, steps[from].inputPatch)
           products == AllocMatrix(patch.heap, steps[from].elementWiseProducts)
           copy     == CopyMatrix(products.heap, kernel)
       IN  [heap |-> copy.heap,
            refs |-> << [inputPatch          |-> patch.ref,
                         elementWiseProducts |-> products.ref,
                         kernelValues        |-> copy.ref] >>]
  ELSE LET mid   == (from + to) \div 2
           first == AllocSteps(heap, kernel, steps, from, mid)
           rest  == AllocSteps(first.heap, kernel, steps, mid + 1, to)
       IN  After(first, [heap |-> rest.heap, refs |-> first.refs \o rest.refs])

\* The objects a convolve2D call leaves behind, given the padded matrix it
\* obtained and the result r it computed: the zero-filled output written with
\* the sums, and the arrays of every step.
AllocResult(padded, kernel, r) ==
  LET output  == AllocMatrix(padded.heap, ZeroMatrix(r.outputDimensions.height,
                                                     r.outputDimensions.width))
      written == WriteCells(output.heap, output.ref, r.output)
      steps   == AllocSteps(written, kernel, r.steps, 1, Len(r.steps))
  IN  After(r, After(written,
        [heap |-> steps.heap, padded |-> padded.ref, output |-> output.ref, steps |-> steps.refs]))

\* ------------------------------------------- JavaScript numbers (IEEE 754)
\* A kernel weight is a JavaScript number, a binary64 double. The doubles the
\* kernel generator computes are finite and far from the ends of the exponent
\* range, so a double is modelled by its exact value (-1)^neg * m * 2^e with
\* m a natural number of at most 53 bits, kept odd so that each value has one
\* representation (zero: m = 0, e = 0, and -0 is not told from 0, as by ===),
\* and every operation rounds its exact result to the nearest such value,
\* ties to the even mantissa. m is held as a sequence of limbs in base 2^15,
\* lowest limb first and no zero limb at the top, because a 53-bit mantissa
\* and a 106-bit product do not fit the model checker's integers.
Base == 2^15

\* The limbs of the natural number n.
RECURSIVE BigOfInt(_)
BigOfInt(n) == IF n = 0 THEN << >> ELSE <<n % Base>> \o BigOfInt(n \div Base)

\* a without zero limbs at the top.
RECURSIVE BigTrim(_)
BigTrim(a) ==
  IF a = << >> \/ a[Len(a)] # 0 THEN a ELSE BigTrim(SubSeq(a, 1, Len(a) - 1))

\* The i-th limb of a, 0 beyond its length.
BigLimb(a, i) == IF i <= Len(a) THEN a[i] ELSE 0

\* -1, 0 or 1 as a < b, a = b or a > b.
BigCmp(a, b) ==
  IF Len(a) # Len(b) THEN (IF Len(a) < Len(b) THEN -1 ELSE 1)
  ELSE LET differ == {i \in 1..Len(a) : a[i] # b[i]}
       IN  IF differ = {} THEN 0
           ELSE LET top == CHOOSE i \in differ : \A k \in differ : k <= i
                IN  IF a[top] < b[top] THEN -1 ELSE 1

\* a + b, from limb i on with the carry of the limbs below.
RECURSIVE BigAddFrom(_, _, _, _)
BigAddFrom(a, b, i, carry) ==
  IF i > Len(a) /\ i > Len(b)
  THEN (IF carry = 0 THEN << >> ELSE <<carry>>)
  ELSE LET t == BigLimb(a, i) + BigLimb(b, i) + carry
       IN  <<t % Base>> \o BigAddFrom(a, b, i + 1, t \div Base)

BigAdd(a, b) == BigAddFrom(a, b, 1, 0)

\* a - b for a >= b, from limb i on with the borrow of the limbs below.
RECURSIVE BigSubFrom(_, _, _, _)
BigSubFrom(a, b, i, borrow) ==
  IF i > Len(a) THEN << >>
  ELSE LET t == a[i] - BigLimb(b, i) - borrow
       IN  <<t % Base>> \o BigSubFrom(a, b, i + 1, IF t < 0 THEN 1 ELSE 0)

BigSub(a, b) == BigTrim(BigSubFrom(a, b, 1, 0))

\* a * k for 0 <= k <= Base, from limb i on with the carry of the limbs below.
RECURSIVE BigMulSmallFrom(_, _, _, _)
BigMulSmallFrom(a, k, i, carry) ==
  IF i > Len(a)
  THEN BigOfInt(carry)
  ELSE LET t == a[i] * k + carry
       IN  <<t % Base>> \o BigMulSmallFrom(a, k, i + 1, t \div Base)

BigMulSmall(a, k) == IF k = 0 THEN << >> ELSE BigMulSmallFrom(a, k, 1, 0)

\* a * Base^n
BigShiftLimbs(a, n) == IF a = << >> THEN << >> ELSE [i \in 1..n |-> 0] \o a

\* a * b, the partial products of the limbs of b from the i-th on.
RECURSIVE BigMulFrom(_, _, _)
BigMulFrom(a, b, i) ==
  IF i > Len(b) THEN << >>
  ELSE BigAdd(BigShiftLimbs(BigMulSmall(a, b[i]), i - 1), BigMulFrom(a, b, i + 1))

BigMul(a, b) == BigMulFrom(a, b, 1)

\* a * 2^s
BigShl(a, s) == BigShiftLimbs(BigMulSmall(a, 2^(s % 15)), s \div 15)

\* floor(a / k) for 0 < k <= Base: the limbs from the i-th down, r the
\* remainder of the limbs above.
RECURSIVE BigDivSmallFrom(_, _, _, _)
BigDivSmallFrom(a, k, i, r) ==
  IF i = 0 THEN << >>
  ELSE LET t == r * Base + a[i]
       IN  BigDivSmallFrom(a, k, i - 1, t % k) \o <<t \div k>>

BigDivSmall(a, k) == BigTrim(BigDivSmallFrom(a, k, Len(a), 0))

\* floor(a / 2^s)
BigShr(a, s) ==
  IF s \div 15 >= Len(a) THEN << >>
  ELSE BigDivSmall(SubSeq(a, s \div 15 + 1, Len(a)), 2^(s % 15))

\* The number of bits of a: 0 for 0, else k with 2^(k-1) <= a < 2^k.
BigBitLen(a) ==
  IF a = << >> THEN 0
  ELSE 15 * (Len(a) - 1) + (CHOOSE k \in 1..15 : 2^(k - 1) <= a[Len(a)] /\ a[Len(a)] < 2^k)

\* The number of zero bits at the low end of a > 0.
BigTrailingZeros(a) ==
  LET low == CHOOSE i \in 1..Len(a) : a[i] # 0 /\ \A k \in 1..(i - 1) : a[k] = 0
  IN  15 * (low - 1) + (CHOOSE k \in 0..14 : a[low] % 2^(k + 1) = 2^k)

\* The largest digit d in lo..hi with d * b <= r, by bisection.
RECURSIVE BigDigit(_, _, _, _)
BigDigit(r, b, lo, hi) ==
  IF lo = hi THEN lo
  ELSE LET mid == (lo + hi + 1) \div 2
       IN  IF BigCmp(BigMulSmall(b, mid), r) <= 0
           THEN BigDigit(r, b, mid, hi)
           ELSE BigDigit(r, b, lo, mid - 1)

\* Long division of a by b > 0, the limbs of a from the i-th down; r is the
\* remainder of the limbs above. The result is [q, r] with a = q * b + r.
RECURSIVE BigDivModFrom(_, _, _, _)
BigDivModFrom(a, b, i, r) ==
  IF i = 0 THEN [q |-> << >>, r |-> r]
  ELSE LET t     == BigTrim(<<a[i]>> \o r)
           digit == BigDigit(t, b, 0, Base - 1)
           below == BigDivModFrom(a, b, i - 1, BigSub(t, BigMulSmall(b, digit)))
       IN  [q |-> below.q \o <<digit>>, r |-> below.r]

BigDivMod(a, b) ==
  LET qr == BigDivModFrom(a, b, Len(a), << >>)
  IN  [q |-> BigTrim(qr.q), r |-> qr.r]

\* The double 0.
F64Zero == [neg |-> FALSE, m |-> << >>, e |-> 0]

\* The double with the exact value (-1)^neg * n * 2^e, n of at most 53 bits.
F64Exact(neg, n, e) ==
  IF n = << >> THEN F64Zero
  ELSE LET zeros == BigTrailingZeros(n)
       IN  [neg |-> neg, m |-> BigShr(n, zeros), e |-> e + zeros]

\* Round to nearest, ties to even: the double nearest to (-1)^neg * x, where
\* n * 2^e <= x < (n + 1) * 2^e and x > n * 2^e exactly if sticky. A sticky
\* result carries at least 55 bits in n.
F64Round(neg, n, e, sticky) ==
  LET len == BigBitLen(n)
  IN  IF len <= 53 THEN F64Exact(neg, n, e)
      ELSE LET s    == len - 53
               q    == BigShr(n, s)
               rest == BigCmp(BigSub(n, BigShl(q, s)), BigShl(<<1>>, s - 1))
               up   == rest > 0 \/ (rest = 0 /\ (sticky \/ q[1] % 2 = 1))
           IN  F64Exact(neg, IF up THEN BigAdd(q, <<1>>) ELSE q, e + s)

\* The double of an integer literal or integer-valued expression.
F64OfInt(i) == F64Exact(i < 0, BigOfInt(IF i < 0 THEN -i ELSE i), 0)

\* -x
F64Neg(x) == IF x = F64Zero THEN x ELSE [x EXCEPT !.neg = ~x.neg]

\* x + y
F64Add(x, y) ==
  IF x = F64Zero THEN y
  ELSE IF y = F64Zero THEN x
  ELSE LET e == IF x.e < y.e THEN x.e ELSE y.e
           a == BigShl(x.m, x.e - e)
           b == BigShl(y.m, y.e - e)
       IN  IF x.neg = y.neg THEN F64Round(x.neg, BigAdd(a, b), e, FALSE)
           ELSE IF BigCmp(a, b) >= 0 THEN F64Round(x.neg, BigSub(a, b), e, FALSE)
           ELSE F64Round(y.neg, BigSub(b, a), e, FALSE)

\* x - y
F64Sub(x, y) == F64Add(x, F64Neg(y))

\* x * y
F64Mul(x, y) ==
  IF x = F64Zero \/ y = F64Zero THEN F64Zero
  ELSE F64Round(x.neg # y.neg, BigMul(x.m, y.m), x.e + y.e, FALSE)

\* x / y for y # 0: the quotient of the mantissas to at least 55 bits, a
\* non-zero remainder being the sticky bit.
F64Div(x, y) ==
  IF x = F64Zero THEN F64Zero
  ELSE LET s  == 55 + BigBitLen(y.m) - BigBitLen(x.m)
           qr == BigDivMod(BigShl(x.m, s), y.m)
       IN  F64Round(x.neg # y.neg, qr.q, x.e - y.e - s, qr.r # << >>)

\* x < 0
F64IsNegative(x) == x # F64Zero /\ x.neg

\* The natural number whose limbs are a, for a number that fits an integer.
RECURSIVE BigToInt(_)
BigToInt(a) == IF a = << >> THEN 0 ELSE a[1] + Base * BigToInt(SubSeq(a, 2, Len(a)))

\* The integer an integer-valued double holds: the number a matrix of pixels
\* or of integer weights carries for it.
IntegerOf(x) ==
  IF x.m = << >> THEN 0
  ELSE IF x.neg THEN -BigToInt(BigShl(x.m, x.e)) ELSE BigToInt(BigShl(x.m, x.e))

\* --------------------------------------------------------- generateKernel
\* An array literal [[...], ...] of integer literals, as a matrix of doubles.
MatrixOfRows(rows) ==
  [i \in 0..(Len(rows) - 1) |-> [j \in 0..(Len(rows[i + 1]) - 1) |-> F64OfInt(rows[i + 1][j + 1])]]

\* A matrix of integer-valued doubles with every cell divided by `divisor`.
DividedBy(m, divisor) == [i \in DOMAIN m |-> [j \in DOMAIN m[i] |-> F64Div(m[i][j], divisor)]]

\* keyof typeof KERNEL_PRESETS
Presets ==
  {"identity", "box_blur", "gaussian", "sharpen", "edge_detect", "edge_sobel_x", "edge_sobel_y",
   "emboss"}

\* KERNEL_PRESETS[preset].kernel
KERNEL_PRESETS(preset) ==
  CASE preset = "identity"     -> MatrixOfRows(<< <<1>> >>)
    [] preset = "box_blur"     -> DividedBy(MatrixOfRows(<< <<1, 1, 1>>, <<1, 1, 1>>, <<1, 1, 1>> >>),
                                            F64OfInt(9))
    [] preset = "gaussian"     -> DividedBy(MatrixOfRows(<< <<1, 2, 1>>, <<2, 4, 2>>, <<1, 2, 1>> >>),
                                            F64OfInt(16))
    [] preset = "sharpen"      -> MatrixOfRows(<< <<0, -1, 0>>, <<-1, 5, -1>>, <<0, -1, 0>> >>)
    [] preset = "edge_detect"  -> MatrixOfRows(<< <<0, -1, 0>>, <<-1, 4, -1>>, <<0, -1, 0>> >>)
    [] preset = "edge_sobel_x" -> MatrixOfRows(<< <<-1, 0, 1>>, <<-2, 0, 2>>, <<-1, 0, 1>> >>)
    [] preset = "edge_sobel_y" -> MatrixOfRows(<< <<-1, -2, -1>>, <<0, 0, 0>>, <<1, 2, 1>> >>)
    [] preset = "emboss"       -> MatrixOfRows(<< <<-2, -1, 0>>, <<-1, 1, 1>>, <<0, 1, 2>> >>)

\* row.reduce((a, b) => a + b, acc) over the cells j.. of one row; with
\* negativeOnly, of the cells that pass filter(v => v < 0).
RECURSIVE ReduceRow(_, _, _, _)
ReduceRow(row, j, negativeOnly, acc) ==
  IF j \notin DOMAIN row THEN acc
  ELSE LET next == IF negativeOnly /\ ~F64IsNegative(row[j]) THEN acc ELSE F64Add(acc, row[j])
       IN  After(next, ReduceRow(row, j + 1, negativeOnly, next))

\* kernel.flat().reduce((a, b) => a + b, acc) over the rows i..: the cells in
\* row-major order, added left to right.
RECURSIVE ReduceFlat(_, _, _, _)
ReduceFlat(m, i, negativeOnly, acc) ==
  IF i \notin DOMAIN m THEN acc
  ELSE LET next == ReduceRow(m[i], 0, negativeOnly, acc)
       IN  After(next, ReduceFlat(m, i + 1, negativeOnly, next))

\* kernel.flat().reduce((a, b) => a + b, 0)
SumFlat(m) == ReduceFlat(m, 0, FALSE, F64Zero)

\* Math.abs and the Chebyshev distance of cell (i, j) to the centre cell.
MathAbs(a) == IF a < 0 THEN -a ELSE a
Distance(i, j, center) == MathMax(MathAbs(i - center), MathAbs(j - center))

\* Array(size).fill(0).map(() => Array(size).fill(0)) with cell(i, j) assigned
\* to every cell.
SquareOf(size, cell(_, _)) == [i \in 0..(size - 1) |-> [j \in 0..(size - 1) |-> cell(i, j)]]

\* Variant: the 1 in the first cell instead of the centre cell.
generateIdentityAtOrigin(size) ==
  SquareOf(size, LAMBDA i, j : IF i = 0 /\ j = 0 THEN F64OfInt(1) ELSE F64Zero)

generateIdentity(size) ==
  LET center == MathFloorDiv(size, 2)
  IN  SquareOf(size, LAMBDA i, j : IF i = center /\ j = center THEN F64OfInt(1) ELSE F64Zero)

generateBoxBlur(size) ==
  LET value == F64Div(F64OfInt(1), F64OfInt(size * size))
  IN  SquareOf(size, LAMBDA i, j : value)

generateEdgeDetect(size) ==
  LET center == MathFloorDiv(size, 2)
      totalNegative == size * size - 1
      weights ==
        SquareOf(size, LAMBDA i, j :
          IF i = center /\ j = center THEN F64OfInt(totalNegative)
          ELSE F64Div(F64OfInt(-1), F64OfInt(Distance(i, j, center))))
      negativeSum == ReduceFlat(weights, 0, TRUE, F64Zero)
      scale == F64Div(F64OfInt(-totalNegative), negativeSum)
  IN  IF size <= 3
      THEN SquareOf(size, LAMBDA i, j :
             IF i = center /\ j = center THEN F64OfInt(size * size - 1) ELSE F64OfInt(-1))
      ELSE After(scale, SquareOf(size, LAMBDA i, j :
             IF F64IsNegative(weights[i][j]) THEN F64Mul(weights[i][j], scale) ELSE weights[i][j]))

\* Variant: the centre left at size * 2, without the adjustment by 1 - sum.
generateSharpenUnadjusted(size) ==
  LET center == MathFloorDiv(size, 2)
  IN  IF size <= 3
      THEN SquareOf(size, LAMBDA i, j :
             IF i = center /\ j = center THEN F64OfInt(size * size) ELSE F64OfInt(-1))
      ELSE SquareOf(size, LAMBDA i, j :
             IF i = center /\ j = center THEN F64OfInt(size * 2)
             ELSE IF Distance(i, j, center) <= 2
                  THEN F64Div(F64OfInt(-1), F64OfInt(Distance(i, j, center)))
                  ELSE F64Zero)

generateSharpen(size) ==
  LET center == MathFloorDiv(size, 2)
      weights ==
        SquareOf(size, LAMBDA i, j :
          IF i = center /\ j = center THEN F64OfInt(size * 2)
          ELSE IF Distance(i, j, center) <= 2
               THEN F64Div(F64OfInt(-1), F64OfInt(Distance(i, j, center)))
               ELSE F64Zero)
      sum == SumFlat(weights)
  IN  IF size <= 3
      THEN SquareOf(size, LAMBDA i, j :
             IF i = center /\ j = center THEN F64OfInt(size * size) ELSE F64OfInt(-1))
      ELSE IF sum # F64OfInt(1)
      THEN [weights EXCEPT ![center][center] = F64Add(@, F64Sub(F64OfInt(1), sum))]
      ELSE weights

\* The 7 x 7 and 9 x 9 tables of integer weights.
Gaussian7 ==
  MatrixOfRows(<< <<0, 0, 1, 2, 1, 0, 0>>,
                  <<0, 3, 13, 22, 13, 3, 0>>,
                  <<1, 13, 59, 97, 59, 13, 1>>,
                  <<2, 22, 97, 159, 97, 22, 2>>,
                  <<1, 13, 59, 97, 59, 13, 1>>,
                  <<0, 3, 13, 22, 13, 3, 0>>,
                  <<0, 0, 1, 2, 1, 0, 0>> >>)
Gaussian9 ==
  MatrixOfRows(<< <<0, 0, 0, 1, 1, 1, 0, 0, 0>>,
                  <<0, 1, 3, 6, 7, 6, 3, 1, 0>>,
                  <<0, 3, 12, 26, 33, 26, 12, 3, 0>>,
                  <<1, 6, 26, 55, 71, 55, 26, 6, 1>>,
                  <<1, 7, 33, 71, 91, 71, 33, 7, 1>>,
                  <<1, 6, 26, 55, 71, 55, 26, 6, 1>>,
                  <<0, 3, 12, 26, 33, 26, 12, 3, 0>>,
                  <<0, 1, 3, 6, 7, 6, 3, 1, 0>>,
                  <<0, 0, 0, 1, 1, 1, 0, 0, 0>> >>)

\* The cell (i, j) of the Gaussian of any other size:
\* Math.exp(-(distance ** 2) / (2 * sigma ** 2)) / sum with sigma = size / 6.
\* Math.exp is implementation-approximated, so the double is left
\* uncomputed: the cell records the expression it is the value of.
GaussianFormulaCell(size, i, j) ==
  LET center == MathFloorDiv(size, 2)
  IN  [exp |-> [dRow |-> i - center, dCol |-> j - center, sixSigma |-> size], normalised |-> TRUE]

\* Variant: the integer tables returned as they are, not divided by their
\* total.
generateGaussianUnnormalised(size) ==
  IF size = 1 THEN MatrixOfRows(<< <<1>> >>)
  ELSE IF size = 5
  THEN MatrixOfRows(<< <<1, 4, 7, 4, 1>>,
                       <<4, 16, 26, 16, 4>>,
                       <<7, 26, 41, 26, 7>>,
                       <<4, 16, 26, 16, 4>>,
                       <<1, 4, 7, 4, 1>> >>)
  ELSE IF size = 7 THEN Gaussian7
  ELSE IF size = 9 THEN Gaussian9
  ELSE SquareOf(size, LAMBDA i, j : GaussianFormulaCell(size, i, j))

generateGaussian(size) ==
  IF size = 1 THEN MatrixOfRows(<< <<1>> >>)
  ELSE IF size = 5
  THEN DividedBy(MatrixOfRows(<< <<1, 4, 7, 4, 1>>,
                                 <<4, 16, 26, 16, 4>>,
                                 <<7, 26, 41, 26, 7>>,
                                 <<4, 16, 26, 16, 4>>,
                                 <<1, 4, 7, 4, 1>> >>), F64OfInt(273))
  ELSE IF size = 7 THEN DividedBy(Gaussian7, SumFlat(Gaussian7))
  ELSE IF size = 9 THEN DividedBy(Gaussian9, SumFlat(Gaussian9))
  ELSE SquareOf(size, LAMBDA i, j : GaussianFormulaCell(size, i, j))

\* Variant: both presets step across the columns.
generateSobelAcrossOnly(preset, size) ==
  LET center == MathFloorDiv(size, 2)
  IN  IF size = 3 THEN KERNEL_PRESETS(preset)
      ELSE SquareOf(size, LAMBDA i, j :
             IF j < center THEN F64OfInt(-1) ELSE IF j > center THEN F64OfInt(1) ELSE F64Zero)

generateSobel(preset, size) ==
  LET center == MathFloorDiv(size, 2)
  IN  IF size = 3 THEN KERNEL_PRESETS(preset)
      ELSE IF preset = "edge_sobel_x"
      THEN SquareOf(size, LAMBDA i, j :
             IF j < center THEN F64OfInt(-1) ELSE IF j > center THEN F64OfInt(1) ELSE F64Zero)
      ELSE SquareOf(size, LAMBDA i, j :
             IF i < center THEN F64OfInt(-1) ELSE IF i > center THEN F64OfInt(1) ELSE F64Zero)

generateEmboss(size) ==
  IF size = 3 THEN KERNEL_PRESETS("emboss")
  ELSE SquareOf(size, LAMBDA i, j :
         IF i < j THEN F64OfInt(-1) ELSE IF i > j THEN F64OfInt(1) ELSE F64Zero)

\* Variant: the fallback of the last line, the unscaled canonical kernel,
\* whatever the size.
generateKernelUnscaled(preset, size) == KERNEL_PRESETS(preset)

\* Variant: only a missing size returns the canonical kernel; a size equal to
\* its side is generated like any other.
generateKernelAlwaysScaled(preset, size) ==
  IF size = 0 THEN KERNEL_PRESETS(preset)
  ELSE IF preset = "identity" THEN generateIdentity(size)
  ELSE IF preset = "box_blur" THEN generateBoxBlur(size)
  ELSE IF preset = "edge_detect" THEN generateEdgeDetect(size)
  ELSE IF preset = "sharpen" THEN generateSharpen(size)
  ELSE IF preset = "gaussian" THEN generateGaussian(size)
  ELSE IF preset \in {"edge_sobel_x", "edge_sobel_y"} THEN generateSobel(preset, size)
  ELSE IF preset = "emboss" THEN generateEmboss(size)
  ELSE KERNEL_PRESETS(preset)

\* generateKernel(preset, size); size = 0 is also the call without a size,
\* !size holding for undefined and for 0 alike.
generateKernel(preset, size) ==
  LET baseKernel == KERNEL_PRESETS(preset)
  IN  IF size = 0 \/ size = Rows(baseKernel) THEN baseKernel
      ELSE IF preset = "identity" THEN generateIdentity(size)
      ELSE IF preset = "box_blur" THEN generateBoxBlur(size)
      ELSE IF preset = "edge_detect" THEN generateEdgeDetect(size)
      ELSE IF preset = "sharpen" THEN generateSharpen(size)
      ELSE IF preset = "gaussian" THEN generateGaussian(size)
      ELSE IF preset \in {"edge_sobel_x", "edge_sobel_y"} THEN generateSobel(preset, size)
      ELSE IF preset = "emboss" THEN generateEmboss(size)
      ELSE baseKernel

\* ------------------------------------------------------------ the callers
\* An h x w image whose cells are pairwise distinct and non-zero
\* (3 x 3: [[1,2,3],[4,5,6],[7,8,9]], the image of the padding tests).
TestImage(h, w) == [i \in 0..(h - 1) |-> [j \in 0..(w - 1) |-> i * w + j + 1]]
\* An h x w kernel with pairwise distinct non-zero weights.
TestKernel(h, w) == [a \in 0..(h - 1) |-> [b \in 0..(w - 1) |-> a * w + b + 1]]

Images  == {TestImage(h, w) : h \in 1..MaxIn, w \in 1..MaxIn}
Kernels == {TestKernel(h, w) : h \in 1..MaxK, w \in 1..MaxK}
Strides == 1..MaxStride
\* Sizes handed to the two arithmetic functions, which take no matrix.
InputSizes  == (1..MaxIn) \cup {ImageSize}
KernelSizes == (1..MaxK) \cup KERNEL_SIZES
Amounts == [top : 0..MaxPad, bottom : 0..MaxPad, left : 0..MaxPad, right : 0..MaxPad]

\* A variable that holds nothing yet.
None == << >>

VARIABLES
  call,           \* the call in flight: the function and its arguments
  pc,             \* "call" before the function has run, then what it has computed
  paddingValues,  \* calculatePadding's result
  paddedInput,    \* applyPadding's result
  outputDims,     \* calculateOutputDimensions' result
  result,         \* convolve2D's ConvolutionResult
  heap,           \* the array objects allocated so far
  refs,           \* the addresses of the arguments, of what was returned, and of
                  \* the matrix a caller wrote to afterwards
  generatedKernel, \* generateKernel's result
  app             \* the state of the App component that drives the animation

vars == <<call, pc, paddingValues, paddedInput, outputDims, result, heap, refs, generatedKernel,
          app>>

DimensionCalls ==
  [fn : {"calculatePadding"},
   inputHeight : InputSizes, inputWidth : InputSizes,
   kernelHeight : KernelSizes, kernelWidth : KernelSizes,
   strideH : Strides, strideW : Strides,
   padding : PaddingType]

PaddingCalls ==
  [fn : {"applyPadding"}, input : Images, paddingValues : Amounts, paddingMode : PaddingType]

\* What generateKernel("identity", size) returns: the preset's own kernel at
\* its own size, generateIdentity's at any other.
IdentityKernel(size) ==
  IF size = Rows(KERNEL_PRESETS("identity")) THEN KERNEL_PRESETS("identity")
  ELSE generateIdentity(size)

\* The identity kernels of the generator, up to a size larger than any image.
IdentityKernels ==
  {[i \in 0..(k - 1) |-> [j \in 0..(k - 1) |-> IntegerOf(IdentityKernel(k)[i][j])]] :
     k \in {n \in 1..(MaxK + 2) : n % 2 = 1}}

ConvolveCalls ==
  [fn : {"convolve2D"}, input : Images, kernel : Kernels \cup IdentityKernels, stride : Strides,
   padding : PaddingType]

\* The calls of the three-mode revision; its kernels are square.
LegacyDimensionCalls ==
  [fn : {"legacy calculateOutputDimensions"},
   inputHeight : InputSizes, inputWidth : InputSizes,
   kernelSize : KernelSizes, stride : Strides, padding : LegacyPaddingType]

LegacyPaddingCalls ==
  [fn : {"legacy applyPadding"}, input : Images, padding : LegacyPaddingType,
   kernelSize : KernelSizes]

LegacyConvolveCalls ==
  [fn : {"legacy convolve2D"}, input : Images, kernel : {TestKernel(k, k) : k \in 1..MaxK},
   stride : Strides, padding : LegacyPaddingType]

\* generateKernel(preset, size) and generateKernel(preset): size 0 is also
\* the call that leaves the size out.
GenerateCalls == [fn : {"generateKernel"}, preset : Presets, size : 0..MaxSize]

\* The caller's matrices as objects: the input, then the kernel.
ArgumentObjects(c) ==
  LET input  == IF "input" \in DOMAIN c
                THEN AllocMatrix(<< >>, c.input) ELSE [heap |-> << >>, ref |-> 0]
      kernel == IF "kernel" \in DOMAIN c
                THEN AllocMatrix(input.heap, c.kernel) ELSE [heap |-> input.heap, ref |-> 0]
  IN  [heap |-> kernel.heap,
       refs |-> [input |-> input.ref, kernel |-> kernel.ref, returned |-> 0,
                 output |-> 0, steps |-> << >>, written |-> 0]]

Init ==
  /\ call \in DimensionCalls \cup PaddingCalls \cup ConvolveCalls
              \cup LegacyDimensionCalls \cup LegacyPaddingCalls \cup LegacyConvolveCalls
              \cup GenerateCalls
  /\ pc = "call"
  /\ paddingValues = None
  /\ paddedInput = None
  /\ outputDims = None
  /\ result = None
  /\ heap = ArgumentObjects(call).heap
  /\ refs = ArgumentObjects(call).refs
  /\ generatedKernel = None
  /\ app = None

\* calculatePadding(inputH, inputW, kernelH, kernelW, strideH, strideW, padding)
CalculatePadding ==
  /\ pc = "call"
  /\ call.fn = "calculatePadding"
  /\ paddingValues' = calculatePadding(call.inputHeight, call.inputWidth, call.kernelHeight,
                                       call.kernelWidth, call.strideH, call.strideW, call.padding)
  /\ pc' = "padding"
  /\ UNCHANGED <<call, paddedInput, outputDims, result, heap, refs, generatedKernel, app>>

\* calculateOutputDimensions(..., paddingValues) on the amounts just resolved
CalculateOutputDimensions ==
  /\ pc = "padding"
  /\ call.fn = "calculatePadding"
  /\ outputDims' = calculateOutputDimensions(call.inputHeight, call.inputWidth, call.kernelHeight,
                                             call.kernelWidth, call.strideH, call.strideW,
                                             paddingValues)
  /\ pc' = "dimensions"
  /\ UNCHANGED <<call, paddingValues, paddedInput, result, heap, refs, generatedKernel, app>>

\* applyPadding(input, paddingValues, paddingMode) on amounts of the caller's choice
ApplyPadding ==
  /\ pc = "call"
  /\ call.fn = "applyPadding"
  /\ paddedInput' = applyPadding(call.input, call.paddingValues, call.paddingMode)
  /\ paddingValues' = call.paddingValues
  /\ LET padded == applyPaddingOnHeap(heap, refs.input, call.paddingValues, call.paddingMode)
     IN  /\ heap' = padded.heap
         /\ refs' = [refs EXCEPT !.returned = padded.ref]
  /\ pc' = "padded"
  /\ UNCHANGED <<call, outputDims, result, generatedKernel, app>>

\* convolve2D(input, kernel, stride, padding)
Convolve2D ==
  /\ pc = "call"
  /\ call.fn = "convolve2D"
  /\ LET r == convolve2D(call.input, call.kernel, call.stride, call.padding)
     IN  /\ result' = r
         /\ paddingValues' = r.paddingValues
         /\ outputDims' = r.outputDimensions
         /\ paddedInput' = applyPadding(call.input, r.paddingValues, call.padding)
         /\ LET objects == AllocResult(applyPaddingOnHeap(heap, refs.input, r.paddingValues,
                                                          call.padding),
                                       refs.kernel, r)
            IN  /\ heap' = objects.heap
                /\ refs' = [refs EXCEPT !.returned = objects.padded, !.output = objects.output,
                                        !.steps = objects.steps]
  /\ pc' = "convolved"
  /\ UNCHANGED <<call, generatedKernel, app>>

\* The corner indices of an array of n cells.
Ends(n) == {0, n - 1}

\* A caller assigns to a corner cell of the matrix applyPadding returned:
\* returned[r][c] += 1.
WriteReturned ==
  /\ pc \in {"padded", "legacy padded"}
  /\ \E r \in Ends(Rows(heap[refs.returned])) :
       \E c \in Ends(Cardinality(DOMAIN heap[heap[refs.returned][r].ref])) :
         heap' = StoreCell(heap, refs.returned, r, c, Deref(heap, refs.returned)[r][c] + 1)
  /\ refs' = [refs EXCEPT !.written = refs.returned]
  /\ pc' = IF pc = "padded" THEN "padded, written" ELSE "legacy padded, written"
  /\ UNCHANGED <<call, paddingValues, paddedInput, outputDims, result, generatedKernel, app>>

\* A caller assigns to a corner cell of the kernelValues of the first or the
\* last step: step.kernelValues[r][c] += 1.
WriteKernelValues ==
  /\ pc \in {"convolved", "legacy convolved"}
  /\ \E n \in {1, Len(refs.steps)} :
       /\ n \in DOMAIN refs.steps
       /\ LET a == refs.steps[n].kernelValues
          IN  \E r \in Ends(Rows(heap[a])) :
                \E c \in Ends(Cardinality(DOMAIN heap[heap[a][r].ref])) :
                  heap' = StoreCell(heap, a, r, c, Deref(heap, a)[r][c] + 1)
       /\ refs' = [refs EXCEPT !.written = refs.steps[n].kernelValues]
  /\ pc' = IF pc = "convolved" THEN "convolved, written" ELSE "legacy convolved, written"
  /\ UNCHANGED <<call, paddingValues, paddedInput, outputDims, result, generatedKernel, app>>

\* calculateOutputDimensions(inputH, inputW, kernelSize, stride, padding), three-mode revision
LegacyCalculateOutputDimensions ==
  /\ pc = "call"
  /\ call.fn = "legacy calculateOutputDimensions"
  /\ outputDims' = legacyCalculateOutputDimensions(call.inputHeight, call.inputWidth,
                                                   call.kernelSize, call.stride, call.padding)
  /\ pc' = "legacy dimensions"
  /\ UNCHANGED <<call, paddingValues, paddedInput, result, heap, refs, generatedKernel, app>>

\* applyPadding(input, padding, kernelSize), three-mode revision
LegacyApplyPadding ==
  /\ pc = "call"
  /\ call.fn = "legacy applyPadding"
  /\ paddedInput' = legacyApplyPadding(call.input, call.padding, call.kernelSize)
  /\ LET padded == legacyApplyPaddingOnHeap(heap, refs.input, call.padding, call.kernelSize)
     IN  /\ heap' = padded.heap
         /\ refs' = [refs EXCEPT !.returned = padded.ref]
  /\ pc' = "legacy padded"
  /\ UNCHANGED <<call, paddingValues, outputDims, result, generatedKernel, app>>

\* convolve2D(input, kernel, stride, padding), three-mode revision
LegacyConvolve2D ==
  /\ pc = "call"
  /\ call.fn = "legacy convolve2D"
  /\ LET r == legacyConvolve2D(call.input, call.kernel, call.stride, call.padding)
     IN  /\ result' = r
         /\ outputDims' = r.outputDimensions
         /\ paddedInput' = legacyApplyPadding(call.input, call.padding, Rows(call.kernel))
         /\ LET objects == AllocResult(legacyApplyPaddingOnHeap(heap, refs.input, call.padding,
                                                                Rows(call.kernel)),
                                       refs.kernel, r)
            IN  /\ heap' = objects.heap
                /\ refs' = [refs EXCEPT !.returned = objects.padded, !.output = objects.output,
                                        !.steps = objects.steps]
  /\ pc' = "legacy convolved"
  /\ UNCHANGED <<call, paddingValues, generatedKernel, app>>

\* generateKernel(preset, size)
GenerateKernel ==
  /\ pc = "call"
  /\ call.fn = "generateKernel"
  /\ generatedKernel' = generateKernel(call.preset, call.size)
  /\ pc' = "generated"
  /\ UNCHANGED <<call, paddingValues, paddedInput, outputDims, result, heap, refs, app>>

Next ==
  \/ CalculatePadding
  \/ CalculateOutputDimensions
  \/ ApplyPadding
  \/ Convolve2D
  \/ LegacyCalculateOutputDimensions
  \/ LegacyApplyPadding
  \/ LegacyConvolve2D
  \/ WriteReturned
  \/ WriteKernelValues
  \/ GenerateKernel

Spec == Init /\ [][Next]_vars

\* ========================================================= the App component
\* The component that drives the animation: its state hooks, its two effects,
\* its handlers and the timer of a playback tick.  React applies the updates
\* a handler, an effect or a timer callback queued at the next render, in the
\* order they were queued; an effect runs after the render that changed one
\* of its dependencies; a timer callback is a task of its own, so it can run
\* between a render and the render of the updates that render's effects
\* queued.

\* The values the controls are moved between: the sample image shown or
\* another one, the smallest or the largest kernel size, the smallest or the
\* largest stride, and two of the padding modes.
AppImages == {"checkerboard", "gradient"}
AppKernelSizes == {3, 9}
AppStrides == {1, 4}
AppPaddings == {"valid", "same"}
AppControls == {"inputImage", "kernelSize", "stride", "padding"}
AppValues(control) ==
  CASE control = "inputImage" -> AppImages
    [] control = "kernelSize" -> AppKernelSizes
    [] control = "stride"     -> AppStrides
    [] control = "padding"    -> AppPaddings

\* The useState initial values of the parameters.
InitialParameters ==
  [inputImage |-> "checkerboard", kernelSize |-> 3, stride |-> 1, padding |-> "valid"]

\* The settings the controls are moved through: the initial one and those
\* with one control moved away from it.
AppParameters ==
  {p \in [inputImage : AppImages, kernelSize : AppKernelSizes, stride : AppStrides,
          padding : AppPaddings] :
     Cardinality({control \in AppControls : p[control] # InitialParameters[control]}) <= 1}

\* convolve2D(inputImage, currentKernel, stride, padding).steps.length for a
\* 64 x 64 image and a square kernel of the chosen size.
StepsLength(p) ==
  LET amounts == calculatePadding(ImageSize, ImageSize, p.kernelSize, p.kernelSize,
                                  p.stride, p.stride, p.padding)
      dims    == calculateOutputDimensions(ImageSize, ImageSize, p.kernelSize, p.kernelSize,
                                           p.stride, p.stride, amounts)
  IN  dims.height * dims.width

\* useState<ConvolutionResult | null>(null), and the result of convolve2D on
\* the parameters p: the parameters it was computed from and steps.length.
NullResult == [null |-> TRUE]
ResultOf(p) == [null |-> FALSE, from |-> p, steps |-> StepsLength(p)]

\* One queued state update: the hook it belongs to, how it computes the new
\* value ("set" for a plain value, the updater's name otherwise), and the
\* value or what the updater's closure captured.
Update(state, op, arg) == [state |-> state, op |-> op, arg |-> arg]

\* Variant: the tick updater wraps round to the first step at the end.
TickUpdaterWrapping(prev, length) ==
  IF prev >= length - 1 THEN [index |-> 0, stop |-> FALSE]
  ELSE [index |-> prev + 1, stop |-> FALSE]

\* The updater of the timer callback: prev => { if (prev >= steps.length - 1)
\* { setIsPlaying(false); return prev; } return prev + 1; }
TickUpdater(prev, length) ==
  IF prev >= length - 1 THEN [index |-> prev, stop |-> TRUE]
  ELSE [index |-> prev + 1, stop |-> FALSE]

\* Variant: the manual step does not saturate.
StepUpdaterUnbounded(prev, length) == prev + 1

\* The updater of handleStep: prev => Math.min(prev + 1, steps.length - 1)
StepUpdater(prev, length) == IF prev + 1 <= length - 1 THEN prev + 1 ELSE length - 1

\* One queued update applied to the state being rendered; stop records that
\* an updater called setIsPlaying(false).
ApplyUpdate(s, u) ==
  CASE u.state = "parameters"        -> [s EXCEPT !.parameters = [@ EXCEPT ![u.op] = u.arg]]
    [] u.state = "convolutionResult" -> [s EXCEPT !.convolutionResult = u.arg]
    [] u.state = "isPlaying"         -> [s EXCEPT !.isPlaying = u.arg]
    [] u.state = "currentStepIndex" /\ u.op = "set" -> [s EXCEPT !.currentStepIndex = u.arg]
    [] u.state = "currentStepIndex" /\ u.op = "tick" ->
         LET next == TickUpdater(s.currentStepIndex, u.arg)
         IN  [s EXCEPT !.currentStepIndex = next.index, !.stop = @ \/ next.stop]
    [] u.state = "currentStepIndex" /\ u.op = "step" ->
         [s EXCEPT !.currentStepIndex = StepUpdater(@, u.arg)]

\* The queue applied in order.
RECURSIVE ApplyUpdates(_, _)
ApplyUpdates(s, queue) ==
  IF queue = << >> THEN s ELSE ApplyUpdates(ApplyUpdate(s, Head(queue)), Tail(queue))

\* The updates the recompute effect queues for the parameters p:
\* setConvolutionResult(result); setCurrentStepIndex(0); setIsPlaying(false)
EffectUpdates(p) ==
  <<Update("convolutionResult", "set", ResultOf(p)),
    Update("currentStepIndex", "set", 0),
    Update("isPlaying", "set", FALSE)>>

\* The effect on [inputImage, currentKernel, stride, padding], if a render
\* scheduled it, run: React runs the effects of a commit before it renders
\* again.
WithEffects(a) ==
  IF a.recompute
  THEN [a EXCEPT !.pending = @ \o EffectUpdates(a.parameters), !.recompute = FALSE]
  ELSE a

\* The render of the component a and its commit: the queued updates applied
\* in order to the committed state, then the setIsPlaying(false) of an
\* updater.  The effects whose dependencies changed are scheduled: the
\* recompute effect, and the animation effect, whose cleanup clears the timer
\* and which sets a new one while playing.
Committed(a) ==
  LET applied == ApplyUpdates([parameters |-> a.parameters,
                               convolutionResult |-> a.convolutionResult,
                               currentStepIndex |-> a.currentStepIndex,
                               isPlaying |-> a.isPlaying, stop |-> FALSE], a.pending)
      s == [applied EXCEPT !.isPlaying = @ /\ ~applied.stop]
      animationDeps == s.isPlaying # a.isPlaying
                       \/ s.currentStepIndex # a.currentStepIndex
                       \/ s.convolutionResult # a.convolutionResult
      armed == s.isPlaying /\ ~s.convolutionResult.null
  IN  [parameters |-> s.parameters, convolutionResult |-> s.convolutionResult,
       currentStepIndex |-> s.currentStepIndex, isPlaying |-> s.isPlaying,
       pending |-> << >>,
       recompute |-> s.parameters # a.parameters,
       timer |-> IF animationDeps THEN armed ELSE a.timer,
       timerSteps |-> IF animationDeps THEN (IF armed THEN s.convolutionResult.steps ELSE 0)
                      ELSE a.timerSteps]

\* A handler called by a user event queued the updates us: React renders
\* them before any other task runs.
Handled(us) == Committed(WithEffects([app EXCEPT !.pending = @ \o us]))

\* Every variable of the library calls, which the component's steps leave alone.
engineVars == <<call, pc, paddingValues, paddedInput, outputDims, result, heap, refs,
                generatedKernel>>

\* The component as mounted: the initial render is committed and its effects
\* have not run yet.
AppInit ==
  /\ app = [parameters |-> InitialParameters, convolutionResult |-> NullResult,
            currentStepIndex |-> 0, isPlaying |-> FALSE,
            pending |-> << >>, recompute |-> TRUE,
            timer |-> FALSE, timerSteps |-> 0]
  /\ call = None
  /\ pc = "app"
  /\ paddingValues = None
  /\ paddedInput = None
  /\ outputDims = None
  /\ result = None
  /\ heap = << >>
  /\ refs = None
  /\ generatedKernel = None

\* A control moved to another value: setInputImage, handleKernelSizeChange's
\* setKernelSize, setStride or setPadding.
ChangeParameters ==
  /\ \E control \in AppControls :
       \E value \in AppValues(control) \ {app.parameters[control]} :
         /\ [app.parameters EXCEPT ![control] = value] \in AppParameters
         /\ app' = Handled(<<Update("parameters", control, value)>>)
  /\ UNCHANGED engineVars

\* The recompute effect, run in a task of its own after the render that
\* scheduled it.
RecomputeEffect ==
  /\ app.recompute
  /\ app' = WithEffects(app)
  /\ UNCHANGED engineVars

\* The callback of the timer the animation effect set: it queues the tick
\* updater, which closes over the result the effect ran with.
TimerTick ==
  /\ app.timer
  /\ app' = [app EXCEPT !.pending = @ \o <<Update("currentStepIndex", "tick", app.timerSteps)>>,
                        !.timer = FALSE, !.timerSteps = 0]
  /\ UNCHANGED engineVars

\* handlePlayPause, by the button or the space bar
HandlePlayPause ==
  /\ ~app.convolutionResult.null
  /\ app' = Handled((IF app.currentStepIndex >= app.convolutionResult.steps - 1
                     THEN <<Update("currentStepIndex", "set", 0)>> ELSE << >>)
                    \o <<Update("isPlaying", "set", ~app.isPlaying)>>)
  /\ UNCHANGED engineVars

\* handleStep, by the button or the N key: it returns at once while playing.
HandleStep ==
  /\ ~app.convolutionResult.null
  /\ app' = IF app.isPlaying THEN app
            ELSE Handled(<<Update("currentStepIndex", "step", app.convolutionResult.steps)>>)
  /\ UNCHANGED engineVars

\* handleReset
HandleReset ==
  /\ app' = Handled(<<Update("currentStepIndex", "set", 0), Update("isPlaying", "set", FALSE)>>)
  /\ UNCHANGED engineVars

\* The render of the updates a timer callback or an effect queued.
Render ==
  /\ app.pending # << >>
  /\ ~app.recompute
  /\ app' = Committed(app)
  /\ UNCHANGED engineVars

AppNext ==
  \/ ChangeParameters
  \/ RecomputeEffect
  \/ TimerTick
  \/ HandlePlayPause
  \/ HandleStep
  \/ HandleReset
  \/ Render

AppSpec == AppInit /\ [][AppNext]_vars

\* Playback left alone: the user acts only while nothing is playing, nothing
\* is queued and no effect is scheduled.
AtRest == app.pending = << >> /\ ~app.recompute /\ ~app.isPlaying

PlaybackNext ==
  \/ RecomputeEffect
  \/ TimerTick
  \/ Render
  \/ AtRest /\ HandlePlayPause
  \/ AtRest /\ HandleStep
  \/ AtRest /\ HandleReset
  \/ AtRest /\ ChangeParameters

\* A timer that is set and not cleared expires, React renders the updates
\* that are queued, and it runs the effects it scheduled.
PlaybackSpec ==
  /\ AppInit
  /\ [][PlaybackNext]_vars
  /\ WF_vars(TimerTick)
  /\ WF_vars(Render)
  /\ WF_vars(RecomputeEffect)

\* ================================================================ claims
\* What the state holds, by the function that ran.
Resolved  == pc \in {"padding", "dimensions"}
Padded    == pc = "padded"
Convolved == pc = "convolved"

\* The arguments of the arithmetic, whichever function received them.
ArgInputHeight  == IF Convolved THEN Rows(call.input) ELSE call.inputHeight
ArgInputWidth   == IF Convolved THEN Cols(call.input) ELSE call.inputWidth
ArgKernelHeight == IF Convolved THEN Rows(call.kernel) ELSE call.kernelHeight
ArgKernelWidth  == IF Convolved THEN Cols(call.kernel) ELSE call.kernelWidth
ArgStrideH      == IF Convolved THEN call.stride ELSE call.strideH
ArgStrideW      == IF Convolved THEN call.stride ELSE call.strideW
ArgPadding      == IF Padded THEN call.paddingMode ELSE call.padding

\* q = floor(n / s) and q = ceil(n / s), stated by their defining inequalities.
IsFloorOf(q, n, s) == q * s <= n /\ n < (q + 1) * s
IsCeilOf(q, n, s)  == (q - 1) * s < n /\ n <= q * s
\* d = max(1, floor(n / s) + 1)
IsClampedExtent(d, n, s) == IF n < s THEN d = 1 ELSE IsFloorOf(d - 1, n, s)

\* C1: convolve2D (and calculateOutputDimensions on resolved amounts) returns
\* height = max(1, floor((H + top + bottom - kernelH) / stride) + 1) and the
\* analogous width, in Valid mode from H - k alone, and the output matrix
\* has exactly height rows of width cells.
C1_OutputDimensions ==
  /\ (pc = "dimensions" \/ Convolved) =>
       /\ IsClampedExtent(outputDims.height,
            ArgInputHeight + paddingValues.top + paddingValues.bottom - ArgKernelHeight, ArgStrideH)
       /\ IsClampedExtent(outputDims.width,
            ArgInputWidth + paddingValues.left + paddingValues.right - ArgKernelWidth, ArgStrideW)
       /\ ArgPadding = "valid" =>
            /\ IsClampedExtent(outputDims.height, ArgInputHeight - ArgKernelHeight, ArgStrideH)
            /\ IsClampedExtent(outputDims.width, ArgInputWidth - ArgKernelWidth, ArgStrideW)
  /\ Convolved =>
       /\ result.outputDimensions = outputDims
       /\ DOMAIN result.output = 0..(result.outputDimensions.height - 1)
       /\ \A i \in DOMAIN result.output :
            DOMAIN result.output[i] = 0..(result.outputDimensions.width - 1)

\* convolve2D ran with a stride that does not divide the padded height minus
\* the kernel height (3 + 1 + 1 - 2 = 3 at stride 2), and returned a 2 x 2 output.
C1_Witness ==
  /\ Convolved
  /\ call.padding = "zero" /\ call.stride = 2
  /\ Rows(call.input) = 3 /\ Rows(call.kernel) = 2
  /\ Cols(call.input) = 3 /\ Cols(call.kernel) = 1
  /\ result.outputDimensions = [height |-> 2, width |-> 2]
  /\ Rows(result.output) = 2 /\ Cols(result.output) = 2

\* C2: in Same mode the resolved amounts make the output exactly
\* ceil(inputH / strideH) x ceil(inputW / strideW), for odd and even kernels.
C2_SamePaddingCeil ==
  ((pc = "dimensions" \/ Convolved) /\ ArgPadding = "same") =>
    /\ IsCeilOf(outputDims.height, ArgInputHeight, ArgStrideH)
    /\ IsCeilOf(outputDims.width, ArgInputWidth, ArgStrideW)

\* Same mode, an even kernel, a stride that does not divide the input, and
\* asymmetric amounts: 3 rows at stride 2 give 2.
C2_Witness ==
  /\ Convolved
  /\ call.padding = "same" /\ call.stride = 2
  /\ Rows(call.input) = 3 /\ Rows(call.kernel) = 2
  /\ paddingValues.top = 0 /\ paddingValues.bottom = 1
  /\ result.outputDimensions.height = 2

\* max((ceil(input / stride) - 1) * stride + kernel - input, 0)
SameTotal(input, kernel, stride) ==
  LET out == CHOOSE c \in 1..input : IsCeilOf(c, input, stride)
  IN  MathMax((out - 1) * stride + kernel - input, 0)

\* C3: calculatePadding returns four naturals; all 0 in Valid mode;
\* top = bottom = floor(kernelH / 2) and left = right = floor(kernelW / 2) in
\* Zero, Reflect and Replicate modes; in Same mode top + bottom =
\* max((ceil(inputH/strideH) - 1) * strideH + kernelH - inputH, 0) with
\* top = floor(total / 2), so 0 <= bottom - top <= 1, likewise left/right.
C3_PaddingAmounts ==
  (Resolved \/ Convolved) =>
    /\ \A side \in {"top", "bottom", "left", "right"} : paddingValues[side] \in Nat
    /\ ArgPadding = "valid" =>
         paddingValues = [top |-> 0, bottom |-> 0, left |-> 0, right |-> 0]
    /\ ArgPadding \in {"zero", "reflect", "replicate"} =>
         /\ paddingValues.top = paddingValues.bottom
         /\ paddingValues.left = paddingValues.right
         /\ IsFloorOf(paddingValues.top, ArgKernelHeight, 2)
         /\ IsFloorOf(paddingValues.left, ArgKernelWidth, 2)
    /\ ArgPadding = "same" =>
         /\ paddingValues.top + paddingValues.bottom
              = SameTotal(ArgInputHeight, ArgKernelHeight, ArgStrideH)
         /\ paddingValues.left + paddingValues.right
              = SameTotal(ArgInputWidth, ArgKernelWidth, ArgStrideW)
         /\ paddingValues.bottom - paddingValues.top \in {0, 1}
         /\ paddingValues.right - paddingValues.left \in {0, 1}

\* calculatePadding resolved Same mode to an odd total on one axis (extra
\* pixel at the bottom) and to the clamped total 0 on the other.
C3_Witness ==
  /\ pc = "padding"
  /\ call.padding = "same"
  /\ call.inputHeight = 3 /\ call.kernelHeight = 2 /\ call.strideH = 1
  /\ call.inputWidth = 2 /\ call.kernelWidth = 1 /\ call.strideW = 2
  /\ paddingValues = [top |-> 0, bottom |-> 1, left |-> 0, right |-> 0]

\* One axis of C4: extent is the output extent computed for an input
\* of `input` cells, a kernel of `kernel` cells and the given stride and mode.
OddKernelExtent(extent, input, kernel, stride, padding) ==
  /\ (padding \in {"zero", "reflect"} /\ kernel % 2 = 1) =>
       /\ IsCeilOf(extent, input, stride)
       /\ (input = 64 /\ stride = 1) => extent = 64
       /\ (input = 64 /\ stride = 2) => extent = 32
  /\ (padding \in {"valid", "none"} /\ input = 64 /\ kernel = 5 /\ stride = 1) => extent = 60
  /\ (padding \in {"valid", "none"} /\ input = 64 /\ kernel = 3 /\ stride = 2) => extent = 31

\* C4: for an odd kernel and Zero or Reflect padding the output extent is
\* ceil(input / stride): 64 -> 64 at stride 1 for k = 3, 5, 7, 9 and 64 -> 32
\* at stride 2; with Valid padding 64, k = 5, s = 1 gives 60 and 64, k = 3,
\* s = 2 gives 31.
C4_OddKernelDimensions ==
  /\ (pc = "dimensions" \/ Convolved) =>
       /\ OddKernelExtent(outputDims.height, ArgInputHeight, ArgKernelHeight, ArgStrideH, ArgPadding)
       /\ OddKernelExtent(outputDims.width, ArgInputWidth, ArgKernelWidth, ArgStrideW, ArgPadding)
  /\ pc = "legacy dimensions" =>
       /\ OddKernelExtent(outputDims.height, call.inputHeight, call.kernelSize, call.stride, call.padding)
       /\ OddKernelExtent(outputDims.width, call.inputWidth, call.kernelSize, call.stride, call.padding)
  /\ pc = "legacy convolved" =>
       /\ OddKernelExtent(outputDims.height, Rows(call.input), Rows(call.kernel), call.stride, call.padding)
       /\ OddKernelExtent(outputDims.width, Cols(call.input), Rows(call.kernel), call.stride, call.padding)

\* The dimensions of a 64 x 64 image were computed for a 9-row, 3-column
\* kernel with Reflect padding, stride 2 down and stride 1 across.
C4_Witness ==
  /\ pc = "dimensions"
  /\ call.padding = "reflect"
  /\ call.inputHeight = 64 /\ call.kernelHeight = 9 /\ call.strideH = 2
  /\ call.inputWidth = 64 /\ call.kernelWidth = 3 /\ call.strideW = 1
  /\ outputDims = [height |-> 32, width |-> 64]

\* The input and the amounts of the padding just applied.
PadInput == call.input
PadTop    == paddingValues.top
PadBottom == paddingValues.bottom
PadLeft   == paddingValues.left
PadRight  == paddingValues.right
InCentre(r, c) ==
  /\ r >= PadTop /\ r < PadTop + Rows(PadInput)
  /\ c >= PadLeft /\ c < PadLeft + Cols(PadInput)

\* C5: for every mode and every amounts, applyPadding returns a rectangular
\* (inputH + top + bottom) x (inputW + left + right) matrix whose centre
\* block is the input: padded[top + i][left + j] = input[i][j].
C5_PaddedShapeAndCentre ==
  (Padded \/ Convolved) =>
    /\ DOMAIN paddedInput = 0..(Rows(PadInput) + PadTop + PadBottom - 1)
    /\ \A r \in DOMAIN paddedInput :
         DOMAIN paddedInput[r] = 0..(Cols(PadInput) + PadLeft + PadRight - 1)
    /\ \A i \in DOMAIN PadInput : \A j \in DOMAIN PadInput[i] :
         paddedInput[PadTop + i][PadLeft + j] = PadInput[i][j]

\* applyPadding ran in Reflect mode on a 3 x 2 input with four different
\* amounts and returned a 5 x 5 matrix.
C5_Witness ==
  /\ Padded
  /\ call.paddingMode = "reflect"
  /\ Rows(call.input) = 3 /\ Cols(call.input) = 2
  /\ call.paddingValues = [top |-> 2, bottom |-> 0, left |-> 1, right |-> 2]
  /\ Rows(paddedInput) = 5 /\ Cols(paddedInput) = 5
  /\ paddedInput[2][1] = 1 /\ paddedInput[4][2] = 6

\* The three-mode revision's padding: its pad on every side.
LegacyPadded   == pc \in {"legacy padded", "legacy convolved"}
LegacyPadSize  ==
  IF call.padding = "none" THEN 0
  ELSE (IF pc = "legacy padded" THEN call.kernelSize ELSE Rows(call.kernel)) \div 2

\* The index a mirror without edge duplication maps offset x to, for an axis
\* of n cells: distance d outside the near edge (x = -d) is index d, distance
\* d outside the far edge (x = n - 1 + d) is index n - 1 - d.
MirrorIndex(x, n) == IF x < 0 THEN -x ELSE IF x >= n THEN 2 * (n - 1) - x ELSE x

\* C6: Reflect padding mirrors across the edge without duplicating the edge
\* pixel: a border cell at distance d outside an edge equals the input cell
\* at distance d inside that edge, rows first and then columns; the 3 x 3
\* image 1..9 padded by 1 gives [[5,4,5,6,5],[2,1,2,3,2],[5,4,5,6,5],
\* [8,7,8,9,8],[5,4,5,6,5]].
C6_ReflectMirrorsWithoutDuplication ==
  (Padded /\ call.paddingMode = "reflect") =>
    /\ \A r \in DOMAIN paddedInput : \A c \in DOMAIN paddedInput[r] :
         LET i == MirrorIndex(r - PadTop, Rows(PadInput))
             j == MirrorIndex(c - PadLeft, Cols(PadInput))
         IN  (i \in DOMAIN PadInput /\ j \in DOMAIN PadInput[0]) =>
               paddedInput[r][c] = PadInput[i][j]
    /\ (PadInput = TestImage(3, 3)
        /\ paddingValues = [top |-> 1, bottom |-> 1, left |-> 1, right |-> 1]) =>
         /\ paddedInput[0] = [c \in 0..4 |-> <<5, 4, 5, 6, 5>>[c + 1]]
         /\ paddedInput[1] = [c \in 0..4 |-> <<2, 1, 2, 3, 2>>[c + 1]]
         /\ paddedInput[2] = [c \in 0..4 |-> <<5, 4, 5, 6, 5>>[c + 1]]
         /\ paddedInput[3] = [c \in 0..4 |-> <<8, 7, 8, 9, 8>>[c + 1]]
         /\ paddedInput[4] = [c \in 0..4 |-> <<5, 4, 5, 6, 5>>[c + 1]]

\* The three-mode revision's reflect branch does mirror without duplicating
\* the edge pixel, wherever the mirrored cell lies inside the input.
LegacyReflectMirrors ==
  (LegacyPadded /\ call.padding = "reflect") =>
    \A r \in DOMAIN paddedInput : \A c \in DOMAIN paddedInput[r] :
      LET i == MirrorIndex(r - LegacyPadSize, Rows(call.input))
          j == MirrorIndex(c - LegacyPadSize, Cols(call.input))
      IN  (i \in DOMAIN call.input /\ j \in DOMAIN call.input[0]) =>
            paddedInput[r][c] = call.input[i][j]

\* clamp(x, lo, hi)
Clamp(x, lo, hi) == IF x < lo THEN lo ELSE IF x > hi THEN hi ELSE x

\* C7: Replicate padding fills every cell with the nearest pixel of the
\* original input: padded[r][c] = input[clamp(r - top, 0, inputH - 1)]
\* [clamp(c - left, 0, inputW - 1)], also for amounts larger than the input.
C7_ReplicateNearestPixel ==
  ((Padded \/ Convolved) /\ ArgPadding = "replicate") =>
    \A r \in DOMAIN paddedInput : \A c \in DOMAIN paddedInput[r] :
      paddedInput[r][c] = PadInput[Clamp(r - PadTop, 0, Rows(PadInput) - 1)]
                                  [Clamp(c - PadLeft, 0, Cols(PadInput) - 1)]

\* applyPadding ran in Replicate mode with amounts larger than the 1 x 2
\* input, and the far corners hold the input's two pixels.
C7_Witness ==
  /\ Padded
  /\ call.paddingMode = "replicate"
  /\ Rows(call.input) = 1 /\ Cols(call.input) = 2
  /\ call.paddingValues = [top |-> 2, bottom |-> 2, left |-> 2, right |-> 2]
  /\ paddedInput[0][0] = 1 /\ paddedInput[4][5] = 2

\* C8: Zero padding leaves every cell outside the centre block equal to 0.
C8_ZeroBorder ==
  /\ ((Padded \/ Convolved) /\ ArgPadding = "zero") =>
       \A r \in DOMAIN paddedInput : \A c \in DOMAIN paddedInput[r] :
         ~InCentre(r, c) => paddedInput[r][c] = 0
  /\ (LegacyPadded /\ call.padding = "zero") =>
       \A r \in DOMAIN paddedInput : \A c \in DOMAIN paddedInput[r] :
         ~(/\ r >= LegacyPadSize /\ r < LegacyPadSize + Rows(call.input)
           /\ c >= LegacyPadSize /\ c < LegacyPadSize + Cols(call.input)) =>
           paddedInput[r][c] = 0

\* applyPadding ran in Zero mode with a border on every side of a 2 x 2
\* input whose cells are all non-zero.
C8_Witness ==
  /\ Padded
  /\ call.paddingMode = "zero"
  /\ call.input = TestImage(2, 2)
  /\ call.paddingValues = [top |-> 1, bottom |-> 2, left |-> 2, right |-> 1]
  /\ paddedInput[0][0] = 0 /\ paddedInput[4][4] = 0 /\ paddedInput[1][2] = 1

\* (a.outputRow, a.outputCol) is lexicographically smaller than b's.
LexLess(a, b) ==
  \/ a.outputRow < b.outputRow
  \/ a.outputRow = b.outputRow /\ a.outputCol < b.outputCol

\* C9: convolve2D emits its steps in strictly row-major output order, and
\* no output coordinate appears in more than one step.
C9_StepsRowMajor ==
  (Convolved \/ pc = "legacy convolved") =>
    /\ \A n \in 1..(Len(result.steps) - 1) : LexLess(result.steps[n], result.steps[n + 1])
    /\ \A m, n \in 1..Len(result.steps) :
         (result.steps[m].outputRow = result.steps[n].outputRow
          /\ result.steps[m].outputCol = result.steps[n].outputCol) => m = n

\* convolve2D returned steps for a 3 x 2 output: two in each of three rows.
C9_Witness ==
  /\ Convolved
  /\ result.outputDimensions = [height |-> 3, width |-> 2]
  /\ Len(result.steps) = 6
  /\ result.steps[2].outputRow = 0 /\ result.steps[2].outputCol = 1
  /\ result.steps[3].outputRow = 1 /\ result.steps[3].outputCol = 0

\* Stride evenly divides the padded dimensions minus the kernel size.
StrideDivides ==
  /\ (Rows(paddedInput) - Rows(call.kernel)) % call.stride = 0
  /\ (Cols(paddedInput) - Cols(call.kernel)) % call.stride = 0
\* The kernel is no larger than the padded input in either dimension.
KernelFits ==
  /\ Rows(call.kernel) <= Rows(paddedInput)
  /\ Cols(call.kernel) <= Cols(paddedInput)
StepCountIsOutputSize ==
  Len(result.steps) = result.outputDimensions.height * result.outputDimensions.width

\* C10 as stated: the number of steps equals outputDimensions.height *
\* outputDimensions.width whenever stride evenly divides the padded
\* dimensions minus the kernel size.
C10_StepCountWhenStrideDivides ==
  (Convolved /\ StrideDivides) => StepCountIsOutputSize

\* C10 as amended: the number of steps equals outputDimensions.height *
\* outputDimensions.width whenever the kernel is no larger than the padded
\* input in either dimension and stride evenly divides the padded dimensions
\* minus the kernel size.
C10_StepCountWhenKernelFits ==
  (Convolved /\ KernelFits /\ StrideDivides) => StepCountIsOutputSize

\* convolve2D ran at stride 2 on a padded input that the stride divides
\* exactly, with a 2 x 2 output, and recorded 4 steps.
C10_Witness ==
  /\ Convolved
  /\ call.stride = 2
  /\ KernelFits /\ StrideDivides
  /\ Rows(paddedInput) - Rows(call.kernel) = 2
  /\ Cols(paddedInput) - Cols(call.kernel) = 2
  /\ Len(result.steps) = 4

\* C11: every step records its window's top-left corner in coordinates of the
\* original, unpadded input: position = (outputRow * stride - top,
\* outputCol * stride - left), so position.row >= -top and position.col >=
\* -left, negative exactly when the window starts inside the top / left
\* padding; result.paddingValues holds the amounts of that translation: the
\* patch cell (a, b) is the cell (position + amounts + (a, b)) of the input
\* padded by those amounts, and the input's own cell (position + (a, b))
\* wherever that lies inside the input.
C11_PositionInUnpaddedCoordinates ==
  Convolved =>
    LET top    == result.paddingValues.top
        left   == result.paddingValues.left
        padded == applyPadding(call.input, result.paddingValues, call.padding)
    IN  \A n \in 1..Len(result.steps) :
          LET step == result.steps[n]
          IN  /\ step.position.row = step.outputRow * call.stride - top
              /\ step.position.col = step.outputCol * call.stride - left
              /\ step.position.row >= -top
              /\ step.position.col >= -left
              /\ step.position.row < 0 <=> step.outputRow * call.stride < top
              /\ step.position.col < 0 <=> step.outputCol * call.stride < left
              /\ \A a \in DOMAIN step.inputPatch : \A b \in DOMAIN step.inputPatch[a] :
                   LET r == step.position.row + a
                       c == step.position.col + b
                   IN  /\ step.inputPatch[a][b] = padded[r + top][c + left]
                       /\ (r \in DOMAIN call.input /\ c \in DOMAIN call.input[0]) =>
                            step.inputPatch[a][b] = call.input[r][c]

\* convolve2D ran with Zero padding, a 3 x 3 kernel and stride 2 on a 3 x 3
\* input: the first window starts in the padding at (-1, -1), the last one
\* inside the input at (1, 1).
C11_Witness ==
  /\ Convolved
  /\ call.padding = "zero" /\ call.stride = 2
  /\ call.input = TestImage(3, 3) /\ call.kernel = TestKernel(3, 3)
  /\ result.paddingValues = [top |-> 1, bottom |-> 1, left |-> 1, right |-> 1]
  /\ Len(result.steps) = 4
  /\ result.steps[1].position = [row |-> -1, col |-> -1]
  /\ result.steps[4].position = [row |-> 1, col |-> 1]
  /\ result.steps[4].inputPatch[0][0] = 5

\* The total of the cells of m whose coordinates are in the set cells.
RECURSIVE TotalOver(_, _)
TotalOver(m, cells) ==
  IF cells = {} THEN 0
  ELSE LET cell == CHOOSE x \in cells : TRUE
       IN  m[cell[1]][cell[2]] + TotalOver(m, cells \ {cell})

\* C12: for every step of convolve2D, inputPatch has the shape of the kernel
\* and inputPatch[a][b] = padded[outputRow * stride + a][outputCol * stride + b];
\* elementWiseProducts[a][b] = inputPatch[a][b] * kernel[a][b] (no kernel
\* flip); sum is the total of elementWiseProducts; and
\* result.output[outputRow][outputCol] = sum.
C12_PatchProductsSumOutput ==
  (Convolved \/ pc = "legacy convolved") =>
    \A n \in 1..Len(result.steps) :
      LET step == result.steps[n]
          cells == {<<a, b>> : a \in DOMAIN call.kernel, b \in DOMAIN call.kernel[0]}
      IN  /\ DOMAIN step.inputPatch = DOMAIN call.kernel
          /\ DOMAIN step.elementWiseProducts = DOMAIN call.kernel
          /\ \A a \in DOMAIN call.kernel :
               /\ DOMAIN step.inputPatch[a] = DOMAIN call.kernel[a]
               /\ DOMAIN step.elementWiseProducts[a] = DOMAIN call.kernel[a]
               /\ \A b \in DOMAIN call.kernel[a] :
                    /\ step.inputPatch[a][b]
                         = paddedInput[step.outputRow * call.stride + a]
                                      [step.outputCol * call.stride + b]
                    /\ step.elementWiseProducts[a][b] = step.inputPatch[a][b] * call.kernel[a][b]
          /\ step.sum = TotalOver(step.elementWiseProducts, cells)
          /\ result.output[step.outputRow][step.outputCol] = step.sum

\* convolve2D ran with the asymmetric kernel [[1,2],[3,4]] on the image 1..9
\* without padding: the last window is [[5,6],[8,9]], its products
\* [[5,12],[24,36]], its sum 77, written to output[1][1].
C12_Witness ==
  /\ Convolved
  /\ call.padding = "valid" /\ call.stride = 1
  /\ call.input = TestImage(3, 3) /\ call.kernel = TestKernel(2, 2)
  /\ Len(result.steps) = 4
  /\ result.steps[4].inputPatch = [a \in 0..1 |-> [b \in 0..1 |-> 5 + 3 * a + b]]
  /\ result.steps[4].elementWiseProducts[0][1] = 12
  /\ result.steps[4].elementWiseProducts[1][0] = 24
  /\ result.steps[4].sum = 77
  /\ result.output[1][1] = 77

\* C13: when the kernel is larger than the padded input in some dimension
\* (only possible with Valid padding), convolve2D reads no cell outside the
\* padded input: the output dimension is clamped to 1 in that dimension,
\* every window is skipped, the step list is empty and every cell of the
\* returned output is 0; in all cases every recorded step's window lies
\* entirely inside the padded input.
C13_OversizedKernelSkipsEveryWindow ==
  /\ (Convolved /\ ~KernelFits) =>
       /\ call.padding = "valid"
       /\ Rows(call.kernel) > Rows(paddedInput) => result.outputDimensions.height = 1
       /\ Cols(call.kernel) > Cols(paddedInput) => result.outputDimensions.width = 1
       /\ result.steps = << >>
       /\ DOMAIN result.output = 0..(result.outputDimensions.height - 1)
       /\ \A i \in DOMAIN result.output :
            /\ DOMAIN result.output[i] = 0..(result.outputDimensions.width - 1)
            /\ \A j \in DOMAIN result.output[i] : result.output[i][j] = 0
  /\ (Convolved \/ pc = "legacy convolved") =>
       \A n \in 1..Len(result.steps) :
         LET step == result.steps[n]
             top  == step.outputRow * call.stride
             left == step.outputCol * call.stride
         IN  /\ top >= 0 /\ top + Rows(call.kernel) <= Rows(paddedInput)
             /\ left >= 0 /\ left + Cols(call.kernel) <= Cols(paddedInput)

\* convolve2D ran with Valid padding and a 2 x 2 kernel on a 1 x 3 input: the
\* kernel is taller than the input but not wider, the height is clamped to 1,
\* the width is 2, no step is recorded and the output is [[0, 0]].
C13_Witness ==
  /\ Convolved
  /\ call.padding = "valid" /\ call.stride = 1
  /\ call.input = TestImage(1, 3) /\ call.kernel = TestKernel(2, 2)
  /\ result.outputDimensions = [height |-> 1, width |-> 2]
  /\ result.steps = << >>
  /\ result.output = ZeroMatrix(1, 2)

\* applyPadding received four amounts that are all 0.
NoAmounts == call.paddingValues = [top |-> 0, bottom |-> 0, left |-> 0, right |-> 0]

\* C14: when all four padding amounts are zero, applyPadding returns the
\* input's contents by value and not aliased to the input: the returned
\* matrix is a distinct object (its outer array and its rows are not the
\* input's), so a later mutation of the returned matrix leaves the caller's
\* input unchanged.
C14_NoAmountsReturnsDistinctObject ==
  /\ (pc = "padded" /\ NoAmounts) =>
       /\ Deref(heap, refs.returned) = call.input
       /\ refs.returned # refs.input
       /\ \A i \in DOMAIN heap[refs.returned] : \A k \in DOMAIN heap[refs.input] :
            heap[refs.returned][i] # heap[refs.input][k]
  /\ (pc = "padded, written" /\ NoAmounts) =>
       Deref(heap, refs.input) = call.input

\* The kernelValues of step n, read through its reference.
KernelValuesOf(n) == Deref(heap, refs.steps[n].kernelValues)
\* The array objects of the matrix at address a: the outer array and the rows.
ObjectsOf(a) == {a} \cup {heap[a][i].ref : i \in DOMAIN heap[a]}

\* C15: convolve2D and applyPadding never modify their arguments: after any
\* call the input matrix and the kernel hold the values they held before, in
\* every padding mode (including Valid, where the padded matrix is the input
\* itself), and each step's kernelValues is a copy of the kernel that shares
\* no array with the kernel or with another step, so a caller's assignment to
\* it changes neither the kernel nor the kernelValues of the other steps.
C15_ArgumentsNotModified ==
  /\ pc \in {"padded", "legacy padded"} =>
       Deref(heap, refs.input) = call.input
  /\ pc \in {"convolved", "legacy convolved"} =>
       /\ Deref(heap, refs.input) = call.input
       /\ Deref(heap, refs.kernel) = call.kernel
       /\ Len(refs.steps) = Len(result.steps)
       /\ \A n \in DOMAIN refs.steps :
            /\ KernelValuesOf(n) = call.kernel
            /\ KernelValuesOf(n) = result.steps[n].kernelValues
            /\ ObjectsOf(refs.steps[n].kernelValues) \cap ObjectsOf(refs.kernel) = {}
            /\ \A m \in DOMAIN refs.steps :
                 m # n => ObjectsOf(refs.steps[n].kernelValues)
                            \cap ObjectsOf(refs.steps[m].kernelValues) = {}
  /\ pc \in {"convolved, written", "legacy convolved, written"} =>
       /\ Deref(heap, refs.input) = call.input
       /\ Deref(heap, refs.kernel) = call.kernel
       /\ \A n \in DOMAIN refs.steps :
            refs.steps[n].kernelValues # refs.written => KernelValuesOf(n) = call.kernel

\* convolve2D ran in Valid mode, so the padded matrix is the input itself, and
\* recorded four steps; a caller then changed kernelValues[1][1] of the last
\* step from 4 to 5, and the kernel and step 1 still hold [[1,2],[3,4]].
C15_Witness ==
  /\ pc = "convolved, written"
  /\ call.padding = "valid"
  /\ refs.returned = refs.input
  /\ call.input = TestImage(3, 3) /\ call.kernel = TestKernel(2, 2)
  /\ Len(refs.steps) = 4
  /\ refs.written = refs.steps[4].kernelValues
  /\ KernelValuesOf(4)[1][1] = 5
  /\ KernelValuesOf(1) = TestKernel(2, 2)
  /\ Deref(heap, refs.kernel) = TestKernel(2, 2)

\* ------------------------------------------------------- generateKernel
Generated == pc = "generated"

\* m has exactly n rows of exactly n cells each.
IsSquareOfSide(m, n) ==
  /\ DOMAIN m = 0..(n - 1)
  /\ \A i \in DOMAIN m : DOMAIN m[i] = 0..(n - 1)

\* C16: for each of the eight presets and every odd size >= 1,
\* generateKernel(preset, size) returns a square matrix of exactly size rows
\* of size cells.
C16_GeneratedKernelIsSquare ==
  (Generated /\ call.preset \in Presets /\ call.size >= 1 /\ call.size % 2 = 1) =>
    IsSquareOfSide(generatedKernel, call.size)

\* A 7 x 7 Gaussian was generated from the 3 x 3 preset.
C16_Witness ==
  /\ Generated
  /\ call.preset = "gaussian" /\ call.size = 7
  /\ Rows(generatedKernel) = 7 /\ Cols(generatedKernel) = 7
  /\ Rows(KERNEL_PRESETS(call.preset)) = 3

\* The side of a preset's canonical matrix: 1 for identity, 3 for the rest.
CanonicalSide(preset) == IF preset = "identity" THEN 1 ELSE 3

\* C17: generateKernel(preset, size) equals the preset's canonical matrix
\* whenever size is omitted (or 0) or equals the canonical side, 1 for
\* identity and 3 for every other preset; edge_detect at size 3 is
\* [[0,-1,0],[-1,4,-1],[0,-1,0]] and sharpen at size 3 is
\* [[0,-1,0],[-1,5,-1],[0,-1,0]].
C17_CanonicalAtNaturalSize ==
  (Generated /\ (call.size = 0 \/ call.size = CanonicalSide(call.preset))) =>
    /\ generatedKernel = KERNEL_PRESETS(call.preset)
    /\ IsSquareOfSide(generatedKernel, CanonicalSide(call.preset))
    /\ call.preset = "edge_detect" =>
         generatedKernel = MatrixOfRows(<< <<0, -1, 0>>, <<-1, 4, -1>>, <<0, -1, 0>> >>)
    /\ call.preset = "sharpen" =>
         generatedKernel = MatrixOfRows(<< <<0, -1, 0>>, <<-1, 5, -1>>, <<0, -1, 0>> >>)

\* edge_detect was asked for at size 3 and came back with the canonical
\* centre 4 and the zero corners that the generated pattern does not have.
C17_Witness ==
  /\ Generated
  /\ call.preset = "edge_detect" /\ call.size = 3
  /\ generatedKernel[1][1] = F64OfInt(4)
  /\ generatedKernel[0][0] = F64Zero

\* C18: generateKernel('identity', size) for every odd size >= 1 has the
\* value 1 at (floor(size/2), floor(size/2)) and 0 in every other cell.
C18_IdentityIsCentredOne ==
  (Generated /\ call.preset = "identity" /\ call.size >= 1 /\ call.size % 2 = 1) =>
    /\ IsSquareOfSide(generatedKernel, call.size)
    /\ \A i, j \in 0..(call.size - 1) :
         generatedKernel[i][j] =
           IF i = call.size \div 2 /\ j = call.size \div 2 THEN F64OfInt(1) ELSE F64Zero

\* A 5 x 5 identity: 1 at (2, 2), 0 in the corners and beside the centre.
C18_Witness ==
  /\ Generated
  /\ call.preset = "identity" /\ call.size = 5
  /\ generatedKernel[2][2] = F64OfInt(1)
  /\ generatedKernel[0][0] = F64Zero /\ generatedKernel[2][3] = F64Zero
  /\ generatedKernel[4][4] = F64Zero

\* The exact sum x + y of two values (-1)^neg * m * 2^e, not rounded: m of
\* any length and not necessarily odd.
ExactAdd(x, y) ==
  IF x.m = << >> THEN y
  ELSE IF y.m = << >> THEN x
  ELSE LET e == IF x.e < y.e THEN x.e ELSE y.e
           a == BigShl(x.m, x.e - e)
           b == BigShl(y.m, y.e - e)
       IN  IF x.neg = y.neg THEN [neg |-> x.neg, m |-> BigAdd(a, b), e |-> e]
           ELSE IF BigCmp(a, b) >= 0 THEN [neg |-> x.neg, m |-> BigSub(a, b), e |-> e]
           ELSE [neg |-> y.neg, m |-> BigSub(b, a), e |-> e]

\* The exact sum of acc and the cells j.. of a row; with negativeOnly, of its
\* negative cells.
RECURSIVE ExactSumRow(_, _, _, _)
ExactSumRow(row, j, negativeOnly, acc) ==
  IF j \notin DOMAIN row THEN acc
  ELSE LET next == IF negativeOnly /\ ~F64IsNegative(row[j]) THEN acc ELSE ExactAdd(acc, row[j])
       IN  After(next, ExactSumRow(row, j + 1, negativeOnly, next))

RECURSIVE ExactSumRows(_, _, _, _)
ExactSumRows(m, i, negativeOnly, acc) ==
  IF i \notin DOMAIN m THEN acc
  ELSE LET next == ExactSumRow(m[i], 0, negativeOnly, acc)
       IN  After(next, ExactSumRows(m, i + 1, negativeOnly, next))

\* The cells of m (with negativeOnly, its negative cells) sum to the integer
\* n: as real numbers, or as the doubles are added by flat().reduce, cell
\* after cell in row-major order.
SumsTo(m, negativeOnly, n) ==
  \/ ExactAdd(ExactSumRows(m, 0, negativeOnly, F64Zero), F64OfInt(-n)).m = << >>
  \/ ReduceFlat(m, 0, negativeOnly, F64Zero) = F64OfInt(n)

\* The non-centre cells of the n x n kernel m.
OffCentre(n) == {c \in (0..(n - 1)) \X (0..(n - 1)) : c # <<n \div 2, n \div 2>>}

\* C19: generateKernel('edge_detect', n) sums to exactly 0 for every odd
\* n >= 1; for n > 3 the centre is n*n - 1, every non-centre cell is negative
\* and proportional to 1 / (Chebyshev distance to the centre), its product
\* with the distance being the same for every cell, and the negative cells
\* together sum to exactly -(n*n - 1).
C19_EdgeDetectSumsToZero ==
  (Generated /\ call.preset = "edge_detect" /\ call.size >= 1 /\ call.size % 2 = 1) =>
    LET n == call.size
        center == n \div 2
    IN  /\ SumsTo(generatedKernel, FALSE, 0)
        /\ n > 3 =>
             /\ generatedKernel[center][center] = F64OfInt(n * n - 1)
             /\ \A c \in OffCentre(n) : F64IsNegative(generatedKernel[c[1]][c[2]])
             /\ \A c, d \in OffCentre(n) :
                  F64Mul(generatedKernel[c[1]][c[2]], F64OfInt(Distance(c[1], c[2], center)))
                    = F64Mul(generatedKernel[d[1]][d[2]], F64OfInt(Distance(d[1], d[2], center)))
             /\ SumsTo(generatedKernel, TRUE, -(n * n - 1))

\* C20: generateKernel('sharpen', n) sums to exactly 1 for every odd n >= 1,
\* both as real numbers and as flat().reduce adds the doubles; for n > 3 each
\* non-centre cell within Chebyshev distance 2 of the centre is -1/distance,
\* every cell farther than distance 2 is 0, and the centre is 2n plus
\* (1 - total), total being the sum of the kernel with 2n at the centre.
C20_SharpenSumsToOne ==
  (Generated /\ call.preset = "sharpen" /\ call.size >= 1 /\ call.size % 2 = 1) =>
    LET n == call.size
        center == n \div 2
        total == SumFlat([generatedKernel EXCEPT ![center][center] = F64OfInt(2 * n)])
    IN  /\ SumFlat(generatedKernel) = F64OfInt(1)
        /\ ExactAdd(ExactSumRows(generatedKernel, 0, FALSE, F64Zero), F64OfInt(-1)).m = << >>
        /\ n > 3 =>
             /\ \A c \in OffCentre(n) :
                  generatedKernel[c[1]][c[2]] =
                    IF Distance(c[1], c[2], center) <= 2
                    THEN F64Div(F64OfInt(-1), F64OfInt(Distance(c[1], c[2], center)))
                    ELSE F64Zero
             /\ generatedKernel[center][center] =
                  F64Add(F64OfInt(2 * n), F64Sub(F64OfInt(1), total))

\* The 7 x 7 sharpen kernel: -1 beside the centre, -1/2 two cells away, 0 in
\* the outer ring, and the centre moved from 14 to 17 by the sum -2 of the
\* unadjusted kernel.
C20_Witness ==
  /\ Generated
  /\ call.preset = "sharpen" /\ call.size = 7
  /\ generatedKernel[3][4] = F64OfInt(-1)
  /\ generatedKernel[1][3] = F64Div(F64OfInt(-1), F64OfInt(2))
  /\ generatedKernel[0][0] = F64Zero
  /\ generatedKernel[3][3] = F64OfInt(17)
  /\ SumFlat([generatedKernel EXCEPT ![3][3] = F64OfInt(14)]) = F64OfInt(-2)
  /\ SumFlat(generatedKernel) = F64OfInt(1)

\* The sizes at which the Gaussian is a fixed table, and the total of each
\* table's integers.
GaussianTableSizes == {1, 3, 5, 7, 9}
GaussianTotal(size) ==
  CASE size = 1 -> 1 [] size = 3 -> 16 [] size = 5 -> 273 [] size = 7 -> 1003 [] size = 9 -> 1099

\* Math.round of a non-negative double below 2^30.
F64RoundToInt(x) ==
  IF x.m = << >> THEN 0
  ELSE IF x.e >= 0 THEN BigToInt(BigShl(x.m, x.e))
  ELSE BigToInt(BigShr(BigAdd(x.m, BigShl(<<1>>, -x.e - 1)), -x.e))

\* The integer weight behind a cell of a table divided by total.
WeightOf(cell, total) == F64RoundToInt(F64Mul(cell, F64OfInt(total)))

\* The matrix of the integer weights behind the cells of m.
WeightsOf(m, total) == [i \in DOMAIN m |-> [j \in DOMAIN m[i] |-> WeightOf(m[i][j], total)]]

\* m is equal to its transpose and to its two mirror images.
IsSymmetric(m) ==
  LET n == Rows(m)
  IN  \A i, j \in 0..(n - 1) :
        /\ m[i][j] = m[j][i]
        /\ m[i][j] = m[i][n - 1 - j]
        /\ m[i][j] = m[n - 1 - i][j]

\* |x - y| <= 2^(-bits)
F64Within(x, y, bits) ==
  LET d   == F64Sub(x, y)
      abs == IF F64IsNegative(d) THEN F64Neg(d) ELSE d
  IN  ~F64IsNegative(F64Sub([neg |-> FALSE, m |-> <<1>>, e |-> -bits], abs))

\* Every cell of the generated table is the quotient weight / total of a
\* non-negative integer weight, and the weights add up to total.
IsNormalisedTable(m, total) ==
  /\ \A i \in DOMAIN m : \A j \in DOMAIN m[i] :
       /\ ~F64IsNegative(m[i][j])
       /\ m[i][j] = F64Div(F64OfInt(WeightOf(m[i][j], total)), F64OfInt(total))
  /\ SumCells(WeightsOf(m, total), Rows(m) * Rows(m)) = total

\* C21 as stated: generateKernel('gaussian', size) at sizes 1, 3, 5, 7 and 9
\* is a table of non-negative integer weights divided by their total (size 1
\* is [[1]], the size-5 integers total 273), it sums to exactly 1, and it is
\* symmetric under transposition and under horizontal and vertical flips.
C21_GaussianSumsToExactlyOne ==
  (Generated /\ call.preset = "gaussian" /\ call.size \in GaussianTableSizes) =>
    /\ IsNormalisedTable(generatedKernel, GaussianTotal(call.size))
    /\ call.size = 1 => generatedKernel = MatrixOfRows(<< <<1>> >>)
    /\ SumsTo(generatedKernel, FALSE, 1)
    /\ IsSymmetric(generatedKernel)

\* C21, amended: at sizes 1, 3, 5, 7 and 9 every cell is the double nearest
\* to weight / total for a non-negative integer weight, the weights add up to
\* total (1, 16, 273, 1003, 1099), the table is symmetric under transposition
\* and both flips, and the doubles add up, by flat().reduce, to 1 within
\* 2^-51: exactly 1 at sizes 1 and 3, where every quotient is exact.
C21_GaussianSumsToOneRounded ==
  (Generated /\ call.preset = "gaussian" /\ call.size \in GaussianTableSizes) =>
    /\ IsSquareOfSide(generatedKernel, call.size)
    /\ IsNormalisedTable(generatedKernel, GaussianTotal(call.size))
    /\ call.size = 1 => generatedKernel = MatrixOfRows(<< <<1>> >>)
    /\ IsSymmetric(generatedKernel)
    /\ F64Within(SumFlat(generatedKernel), F64OfInt(1), 51)
    /\ call.size <= 3 => SumFlat(generatedKernel) = F64OfInt(1)

\* The 5 x 5 table: corner weight 1 and centre weight 41 of 273, and a sum of
\* doubles just below 1.
C21_Witness ==
  /\ Generated
  /\ call.preset = "gaussian" /\ call.size = 5
  /\ WeightOf(generatedKernel[0][0], 273) = 1
  /\ WeightOf(generatedKernel[2][2], 273) = 41
  /\ SumFlat(generatedKernel) # F64OfInt(1)
  /\ F64IsNegative(F64Sub(SumFlat(generatedKernel), F64OfInt(1)))

\* -1 before the centre index, +1 after it, 0 on it.
StepAcross(index, center) ==
  IF index < center THEN F64OfInt(-1) ELSE IF index > center THEN F64OfInt(1) ELSE F64Zero

\* The transpose of a square matrix.
Transpose(m) == [i \in DOMAIN m |-> [j \in DOMAIN m |-> m[j][i]]]

\* C22: for every odd size other than 3, generateKernel('edge_sobel_x', size)
\* has -1 left of the centre column, +1 right of it and 0 in it, in all rows,
\* and generateKernel('edge_sobel_y', size) has -1 above the centre row, +1
\* below it and 0 on it; at size 3 both are the classic Sobel matrices; at
\* every odd size the sobel_y kernel is the transpose of the sobel_x kernel
\* and each sums to 0.
C22_SobelStepKernels ==
  (Generated /\ call.preset \in {"edge_sobel_x", "edge_sobel_y"}
             /\ call.size >= 1 /\ call.size % 2 = 1) =>
    LET n == call.size
        center == n \div 2
    IN  /\ IsSquareOfSide(generatedKernel, n)
        /\ (n # 3 /\ call.preset = "edge_sobel_x") =>
             \A i, j \in 0..(n - 1) : generatedKernel[i][j] = StepAcross(j, center)
        /\ (n # 3 /\ call.preset = "edge_sobel_y") =>
             \A i, j \in 0..(n - 1) : generatedKernel[i][j] = StepAcross(i, center)
        /\ (n = 3 /\ call.preset = "edge_sobel_x") =>
             generatedKernel = MatrixOfRows(<< <<-1, 0, 1>>, <<-2, 0, 2>>, <<-1, 0, 1>> >>)
        /\ (n = 3 /\ call.preset = "edge_sobel_y") =>
             generatedKernel = MatrixOfRows(<< <<-1, -2, -1>>, <<0, 0, 0>>, <<1, 2, 1>> >>)
        /\ call.preset = "edge_sobel_y" =>
             generatedKernel = Transpose(generateKernel("edge_sobel_x", n))
        /\ call.preset = "edge_sobel_x" =>
             generatedKernel = Transpose(generateKernel("edge_sobel_y", n))
        /\ SumFlat(generatedKernel) = F64Zero
        /\ ExactSumRows(generatedKernel, 0, FALSE, F64Zero).m = << >>

\* A 5 x 5 sobel_y kernel: -1 in the two rows above the centre row, 0 on it,
\* +1 below, whatever the column.
C22_Witness ==
  /\ Generated
  /\ call.preset = "edge_sobel_y" /\ call.size = 5
  /\ generatedKernel[0][4] = F64OfInt(-1) /\ generatedKernel[1][0] = F64OfInt(-1)
  /\ generatedKernel[2][0] = F64Zero /\ generatedKernel[2][4] = F64Zero
  /\ generatedKernel[3][4] = F64OfInt(1) /\ generatedKernel[4][0] = F64OfInt(1)

\* ------------------------------------------------- padding, continued
\* The amounts 1 on every side.
OneOnEverySide == [top |-> 1, bottom |-> 1, left |-> 1, right |-> 1]

BorderModes == {"zero", "reflect", "replicate", "same"}

\* The (outputRow, outputCol) pairs of the recorded steps.
StepCells == {<<result.steps[n].outputRow, result.steps[n].outputCol>> : n \in DOMAIN result.steps}

\* C26: the step count of convolve2D is all or nothing: it is
\* outputDimensions.height * outputDimensions.width whenever the kernel fits
\* inside the padded input in both dimensions and 0 otherwise; in Zero,
\* Reflect, Replicate and Same modes the kernel always fits, for any input
\* size, kernel size and stride >= 1, so every output cell is written
\* exactly once and the step list is not empty.
C26_StepCountAllOrNothing ==
  /\ Convolved =>
       /\ Len(result.steps) =
            IF KernelFits THEN result.outputDimensions.height * result.outputDimensions.width
            ELSE 0
       /\ call.padding \in BorderModes =>
            /\ KernelFits
            /\ Len(result.steps) > 0
            /\ StepCells = (0..(result.outputDimensions.height - 1))
                              \X (0..(result.outputDimensions.width - 1))
            /\ Cardinality(StepCells) = Len(result.steps)
            /\ \A n \in DOMAIN result.steps :
                 result.output[result.steps[n].outputRow][result.steps[n].outputCol]
                   = result.steps[n].sum
  /\ (Resolved /\ call.padding \in BorderModes) =>
       /\ call.kernelHeight <= call.inputHeight + paddingValues.top + paddingValues.bottom
       /\ call.kernelWidth <= call.inputWidth + paddingValues.left + paddingValues.right

\* Zero mode at stride 2 with a 3 x 2 kernel on a 3 x 3 input, where the
\* stride does not divide the padded width less the kernel width: one step
\* per output cell.
C26_Witness ==
  /\ Convolved /\ call.padding = "zero" /\ call.stride = 2
  /\ Rows(call.input) = 3 /\ Cols(call.input) = 3
  /\ Rows(call.kernel) = 3 /\ Cols(call.kernel) = 2
  /\ ~StrideDivides
  /\ KernelFits
  /\ Len(result.steps) = 4
  /\ Cardinality(StepCells) = 4

\* m is `input` with `amounts` cells of 0 added on each side.
IsZeroBordered(m, input, amounts) ==
  /\ DOMAIN m = 0..(Rows(input) + amounts.top + amounts.bottom - 1)
  /\ \A i \in DOMAIN m :
       /\ DOMAIN m[i] = 0..(Cols(input) + amounts.left + amounts.right - 1)
       /\ \A j \in DOMAIN m[i] :
            m[i][j] =
              IF /\ i >= amounts.top /\ i < amounts.top + Rows(input)
                 /\ j >= amounts.left /\ j < amounts.left + Cols(input)
              THEN input[i - amounts.top][j - amounts.left]
              ELSE 0

\* C27: Same mode has no border-fill rule of its own: applyPadding with mode
\* 'same' returns exactly what mode 'zero' returns for the same amounts, the
\* centre block being the input and every other cell 0, including the
\* asymmetric extra row and column on the bottom and right.
C27_SameFillsLikeZero ==
  /\ (Padded /\ call.paddingMode = "same") =>
       /\ paddedInput = applyPadding(call.input, call.paddingValues, "zero")
       /\ IsZeroBordered(paddedInput, call.input, call.paddingValues)
  /\ (Convolved /\ call.padding = "same") =>
       /\ paddedInput = applyPadding(call.input, result.paddingValues, "zero")
       /\ IsZeroBordered(paddedInput, call.input, result.paddingValues)

\* convolve2D in Same mode with a 2 x 2 kernel at stride 1 on a 3 x 3 input:
\* nothing on top and left, one row and one column of 0 on bottom and right.
C27_Witness ==
  /\ Convolved /\ call.padding = "same" /\ call.stride = 1
  /\ Rows(call.input) = 3 /\ Cols(call.input) = 3
  /\ Rows(call.kernel) = 2 /\ Cols(call.kernel) = 2
  /\ result.paddingValues = [top |-> 0, bottom |-> 1, left |-> 0, right |-> 1]
  /\ Rows(paddedInput) = 4 /\ Cols(paddedInput) = 4
  /\ paddedInput[0][0] = 1 /\ paddedInput[2][2] = 9
  /\ paddedInput[3][0] = 0 /\ paddedInput[0][3] = 0 /\ paddedInput[3][3] = 0

\* The index on an axis of n input cells that the reflect branch copies to
\* the padded index x, `before` being the pad in front of the axis: the
\* cell itself inside the input, the edge cell first outside it.
ReflectSource(x, before, n) ==
  IF x < before THEN before - 1 - x
  ELSE IF x >= before + n THEN n - 1 - (x - (before + n))
  ELSE x - before

\* The cells of the matrix m.
CellValues(m) == {m[i][j] : i \in DOMAIN m, j \in DOMAIN m[0]}

\* `padded` is what the reflect branch makes of `input` with `amounts`.
ReflectsOrKeepsZero(padded, input, amounts) ==
  LET height == Rows(input)
      width  == Cols(input)
  IN  /\ DOMAIN padded = 0..(height + amounts.top + amounts.bottom - 1)
      /\ \A r \in DOMAIN padded :
           /\ DOMAIN padded[r] = 0..(width + amounts.left + amounts.right - 1)
           /\ \A c \in DOMAIN padded[r] :
                LET i == ReflectSource(r, amounts.top, height)
                    j == ReflectSource(c, amounts.left, width)
                IN  /\ (i \in 0..(height - 1) /\ j \in 0..(width - 1)) =>
                         padded[r][c] = input[i][j]
                    /\ ~(i \in 0..(height - 1) /\ j \in 0..(width - 1)) =>
                         padded[r][c] = 0
      /\ (/\ amounts.top <= height /\ amounts.bottom <= height
          /\ amounts.left <= width /\ amounts.right <= width) =>
           \A r \in DOMAIN padded : \A c \in DOMAIN padded[r] :
             padded[r][c] \in CellValues(input)

\* C28: in reflect mode every border cell of the padded matrix is a copy of
\* an input cell provided the pad on each side does not exceed the input's
\* extent on that axis; when a pad exceeds it, applyPadding still returns,
\* reading no cell out of range, and the cells whose mirror source would
\* fall outside the input keep the value 0.
C28_ReflectWithinExtent ==
  /\ (Padded /\ call.paddingMode = "reflect") =>
       ReflectsOrKeepsZero(paddedInput, call.input, call.paddingValues)
  /\ (Convolved /\ call.padding = "reflect") =>
       ReflectsOrKeepsZero(paddedInput, call.input, result.paddingValues)

\* A 1 x 2 image padded by 2 on top and by 1 elsewhere: the first border row
\* above the image copies it, the second has no source and stays 0, corner
\* cells included.
C28_Witness ==
  /\ Padded /\ call.paddingMode = "reflect"
  /\ Rows(call.input) = 1 /\ Cols(call.input) = 2
  /\ call.paddingValues = [top |-> 2, bottom |-> 1, left |-> 1, right |-> 1]
  /\ paddedInput[1][1] = call.input[0][0] /\ paddedInput[1][0] = call.input[0][0]
  /\ paddedInput[0][1] = 0 /\ paddedInput[0][0] = 0 /\ paddedInput[0][3] = 0
  /\ paddedInput[3][3] = call.input[0][1]

\* m without its d outermost rows and columns on every side.
Cropped(m, d) ==
  [i \in 0..(Rows(m) - 2 * d - 1) |-> [j \in 0..(Cols(m) - 2 * d - 1) |-> m[i + d][j + d]]]

\* C29: convolving with an identity kernel is the identity on images: for
\* every input, every odd size k and stride 1,
\* convolve2D(input, generateKernel('identity', k), 1, mode).output equals the
\* input cell for cell when mode is Zero, Reflect, Replicate or Same, and the
\* input cropped by floor(k/2) on every side when mode is Valid and
\* k <= min(inputH, inputW).
C29_IdentityKernelReturnsInput ==
  (Convolved /\ call.kernel \in IdentityKernels /\ call.stride = 1) =>
    LET k == Rows(call.kernel)
    IN  /\ call.padding \in BorderModes => result.output = call.input
        /\ (call.padding = "valid" /\ k <= Rows(call.input) /\ k <= Cols(call.input)) =>
             result.output = Cropped(call.input, k \div 2)

\* A 5 x 5 identity kernel on a 2 x 3 image in reflect mode: the kernel is
\* larger than the image, every window reaches into the border, and the
\* output is the image.
C29_Witness ==
  /\ Convolved /\ call.padding = "reflect" /\ call.stride = 1
  /\ call.kernel \in IdentityKernels /\ Rows(call.kernel) = 5
  /\ call.kernel[2][2] = 1 /\ call.kernel[0][0] = 0
  /\ Rows(call.input) = 2 /\ Cols(call.input) = 3
  /\ Len(result.steps) = 6
  /\ result.output = call.input

\* ------------------------------------------------- the component's claims
\* The component holds a result with steps to show.
HoldsSteps == ~app.convolutionResult.null /\ app.convolutionResult.steps > 0

\* Nothing is queued and no effect is scheduled: what is on screen is the
\* whole state.
Quiescent == app.pending = << >> /\ ~app.recompute

\* convolutionResult.steps.length - 1
LastStep == app.convolutionResult.steps - 1

\* What a call of handleStep in a quiescent state does to the index shown.
StepsOnce ==
  IF app.isPlaying THEN app' = app
  ELSE /\ app'.currentStepIndex = (IF app.currentStepIndex < LastStep
                                   THEN app.currentStepIndex + 1 ELSE LastStep)
       /\ app'.isPlaying = app.isPlaying
       /\ app'.convolutionResult = app.convolutionResult

\* C30: whatever the interleaving of play/pause, manual steps, resets, timer
\* ticks and parameter changes, the index of a held result with steps lies
\* in 0..steps.length - 1; a manual step changes nothing while playing and
\* otherwise advances the index by one, stopping at the last step.
C30_IndexStaysInRange ==
  /\ [](HoldsSteps => (0 <= app.currentStepIndex /\ app.currentStepIndex <= LastStep))
  /\ [][(HandleStep /\ Quiescent) => StepsOnce]_vars

\* A manual step taken on the last step of the result of a changed stride.
C30_Witness ==
  /\ Quiescent
  /\ HoldsSteps
  /\ app.convolutionResult.from.stride # InitialParameters.stride
  /\ app.currentStepIndex = LastStep
  /\ ~app.isPlaying

\* The result held was computed from the parameters on screen.
HoldsResultOfParameters ==
  ~app.convolutionResult.null /\ app.convolutionResult.from = app.parameters

\* A render, not made for a handler, commits another result.
RendersNewResult == Render /\ app'.convolutionResult # app.convolutionResult

\* C24: after a change of the image, the kernel, the stride or the padding the
\* result is recomputed from the new parameters, and the render that commits
\* it shows step 0 with playback stopped, also in the middle of playback: no
\* timer set before the change advances the index.
C24_ChangeResetsAnimation ==
  /\ [](Quiescent => HoldsResultOfParameters)
  /\ [][RendersNewResult => (app'.currentStepIndex = 0 /\ ~app'.isPlaying)]_vars

\* The render of one tick of playback.
RendersTick ==
  /\ Render
  /\ app.isPlaying
  /\ app.pending = <<Update("currentStepIndex", "tick", app.convolutionResult.steps)>>

\* What the render of a tick shows: the next step, or the last step again
\* with playback stopped.
TicksOnce ==
  IF app.currentStepIndex < LastStep
  THEN app'.currentStepIndex = app.currentStepIndex + 1 /\ app'.isPlaying
  ELSE app'.currentStepIndex = app.currentStepIndex /\ ~app'.isPlaying

\* Play pressed on the last step of a held result.
PlaysOnLastStep == HandlePlayPause /\ AtRest /\ app.currentStepIndex >= LastStep

\* Playback has stopped on the last step.
StoppedOnLastStep == ~app.isPlaying /\ HoldsSteps /\ app.currentStepIndex = LastStep

\* C25: with playback left alone every tick advances the index by exactly
\* one up to steps.length - 1, the tick after that leaves the index where it
\* is and stops playback, so playback always eventually stops on the last
\* step; play pressed on the last step starts again from step 0.
C25_PlaybackRunsToLastStep ==
  /\ [][RendersTick => TicksOnce]_vars
  /\ [][PlaysOnLastStep => (app'.currentStepIndex = 0 /\ app'.isPlaying)]_vars
  /\ (app.isPlaying ~> StoppedOnLastStep)

\* The tick that finds playback on the last step is queued.
C25_Witness ==
  /\ app.isPlaying
  /\ HoldsSteps
  /\ app.currentStepIndex = LastStep
  /\ app.pending = <<Update("currentStepIndex", "tick", app.convolutionResult.steps)>>

====
